---- MODULE Spec2Model ----
(***************************************************************************)
(* A model of gotoc, a protocol buffer compiler front end: the lexer and   *)
(* recursive-descent parser (parser.go), the multi-file loader             *)
(* (ParseFiles), the symbol resolver (resolve.go) and the descriptor       *)
(* generator (gendesc.go).                                                 *)
(*                                                                         *)
(* Go strings are TLA+ strings; a byte is a string of length one.  Go      *)
(* indexes are 0-based, Byte(s, i) takes the 0-based index i.              *)
(***************************************************************************)
EXTENDS Integers, Sequences, FiniteSets, TLC

\* ------------------------------------------------------------------------
\* Strings
\* ------------------------------------------------------------------------

\* s[i] for a 0-based i.
Byte(s, i) == SubSeq(s, i + 1, i + 1)

\* s[:n]
Take(s, n) == SubSeq(s, 1, n)

\* s[n:]
Drop(s, n) == SubSeq(s, n + 1, Len(s))

\* s[a:b]
Slice(s, a, b) == SubSeq(s, a + 1, b)

Digits == <<"0", "1", "2", "3", "4", "5", "6", "7", "8", "9">>

DigitSet == {Digits[i] : i \in 1..10}

DigitVal(c) == (CHOOSE i \in 1..10 : Digits[i] = c) - 1

UpperLetters ==
  {"A", "B", "C", "D", "E", "F", "G", "H", "I", "J", "K", "L", "M",
   "N", "O", "P", "Q", "R", "S", "T", "U", "V", "W", "X", "Y", "Z"}

LowerLetters ==
  {"a", "b", "c", "d", "e", "f", "g", "h", "i", "j", "k", "l", "m",
   "n", "o", "p", "q", "r", "s", "t", "u", "v", "w", "x", "y", "z"}

\* strings.HasSuffix(s, suf) / strings.HasPrefix(s, pre)
HasSuffix(s, suf) == Len(s) >= Len(suf) /\ Drop(s, Len(s) - Len(suf)) = suf

HasPrefix(s, pre) == Len(s) >= Len(pre) /\ Take(s, Len(pre)) = pre

RECURSIVE SplitFrom(_, _, _, _)
\* The pieces of s[start:] cut at every sep byte, scanning from index i.
SplitFrom(s, sep, start, i) ==
  IF i >= Len(s) THEN <<Slice(s, start, Len(s))>>
  ELSE IF Byte(s, i) = sep
       THEN <<Slice(s, start, i)>> \o SplitFrom(s, sep, i + 1, i + 1)
       ELSE SplitFrom(s, sep, start, i + 1)

\* Split answering no pieces for the empty string.
SplitNoneOfEmpty(s, sep) == IF s = "" THEN <<>> ELSE SplitFrom(s, sep, 0, 0)

\* strings.Split(s, sep) for a one-byte sep: never empty, Split("") = <<"">>.
Split(s, sep) == SplitFrom(s, sep, 0, 0)

RECURSIVE Join(_, _)
\* strings.Join(parts, sep)
Join(parts, sep) ==
  IF parts = <<>> THEN ""
  ELSE IF Len(parts) = 1 THEN parts[1]
       ELSE parts[1] \o sep \o Join(Tail(parts), sep)

\* ------------------------------------------------------------------------
\* Errors, tokens and the parser state
\* ------------------------------------------------------------------------

\* A nil *parseError.
nilErr == [kind |-> "nil", message |-> "", line |-> 0, offset |-> 0]

\* var eof = &parseError{message: "EOF"}; compared by identity in the code.
eof == [kind |-> "eof", message |-> "EOF", line |-> 0, offset |-> 0]

parseError(msg, line, offset) ==
  [kind |-> "err", message |-> msg, line |-> line, offset |-> offset]

\* type token; newParser starts with token{line: 1}.
token == [value |-> "", err |-> nilErr, line |-> 1, offset |-> 0, unquoted |-> ""]

\* newParser(filename, s).  lexErr is a history field, not in the code: the
\* first error advance() has raised on this input (nilErr while none).
newParser(filename, s) ==
  [filename |-> filename, s |-> s, done |-> FALSE, backed |-> FALSE,
   offset |-> 0, line |-> 1, cur |-> token, comments |-> <<>>,
   lexErr |-> nilErr]

\* p.errorf(...): builds the error at the current token, stores it in p.cur.err
\* and sets p.done.  The caller reads the error back from .cur.err.
\* The messages are kept short: they name the case and the token, without the
\* quotes that %q puts around it and without the text of a strconv error.
errorf(p, msg) ==
  [p EXCEPT !.cur.err = parseError(msg, p.cur.line, p.cur.offset),
            !.done = TRUE]

\* The methods and functions of the program call one another through Call,
\* the one operator declared RECURSIVE for all of them:
\* Call("next", <<p>>) is p.next().
RECURSIVE Call(_, _)

\* isWhitespace: unicode.IsSpace on one byte.  (The bytes \v, 0x85 and 0xA0
\* cannot be written in a TLA+ string and are outside the input alphabet.)
isWhitespace(c) == c \in {" ", "\t", "\n", "\r", "\f"}

\* isIdentOrNumberChar: [-+._A-Za-z0-9]
isIdentOrNumberChar(c) ==
  \/ c \in UpperLetters \/ c \in LowerLetters
  \/ c \in DigitSet
  \/ c \in {"-", "+", ".", "_"}

Symbols == {";", "{", "}", "=", "[", "]", ",", "<", ">", "(", ")"}

RECURSIVE endOfLine(_, _)
\* for i < len(p.s) && p.s[i] != '\n' { i++ }
endOfLine(s, i) ==
  IF i < Len(s) /\ Byte(s, i) # "\n" THEN endOfLine(s, i + 1) ELSE i

RECURSIVE skipLoop(_, _, _, _, _)
\* The loop of skipWhitespaceAndComments: the final i, line and comments.
skipLoop(s, i, line, offset, comments) ==
  IF i >= Len(s) THEN [i |-> i, line |-> line, comments |-> comments]
  ELSE IF isWhitespace(Byte(s, i))
       THEN skipLoop(s, i + 1, IF Byte(s, i) = "\n" THEN line + 1 ELSE line,
                     offset, comments)
       ELSE IF i + 1 < Len(s) /\ Byte(s, i) = "/" /\ Byte(s, i + 1) = "/"
            THEN LET e == endOfLine(s, i)
                     c == [text |-> Slice(s, i + 2, e), line |-> line,
                           offset |-> offset + i]
                 IN IF e < Len(s)
                    THEN skipLoop(s, e + 1, line + 1, offset, Append(comments, c))
                    ELSE [i |-> e, line |-> line, comments |-> Append(comments, c)]
            ELSE [i |-> i, line |-> line, comments |-> comments]

skipWhitespaceAndComments(p) ==
  LET r == skipLoop(p.s, 0, p.line, p.offset, p.comments)
  IN [p EXCEPT !.line = r.line, !.comments = r.comments,
               !.offset = p.offset + r.i, !.s = Drop(p.s, r.i),
               !.done = IF Len(p.s) = r.i THEN TRUE ELSE p.done]

\* for i < len(p.s) && p.s[i] != p.s[0] { skip an escaped byte; i++ }
\* The loop reaches the index j iff the backslashes that stand right before
\* j, from i on, are even in number; it ends at the first quote it reaches.
stringEnd(s, i) ==
  LET run(j) == CHOOSE n \in 0..(j - i) :
                  /\ \A m \in 1..n : Byte(s, j - m) = "\\"
                  /\ n = j - i \/ Byte(s, j - n - 1) # "\\"
      closes(j) == Byte(s, j) = Byte(s, 0) /\ run(j) % 2 = 0
  IN IF \E j \in i..(Len(s) - 1) : closes(j)
     THEN CHOOSE j \in i..(Len(s) - 1) :
            closes(j) /\ \A m \in i..(j - 1) : ~closes(m)
     ELSE Len(s)

RECURSIVE identEnd(_, _)
\* for i < len(p.s) && isIdentOrNumberChar(p.s[i]) { i++ }
identEnd(s, i) ==
  IF i < Len(s) /\ isIdentOrNumberChar(Byte(s, i)) THEN identEnd(s, i + 1) ELSE i

\* The one-byte escapes of strconv.Unquote that a TLA+ string can hold.
\* (\a \b \v and the numeric escapes \x \u \U \0..\7 are outside the input
\* alphabet; they are answered as a syntax error here.)
UnescapeByte(c, quote) ==
  IF c = "n" THEN "\n"
  ELSE IF c = "t" THEN "\t"
  ELSE IF c = "r" THEN "\r"
  ELSE IF c = "f" THEN "\f"
  ELSE IF c = "\\" THEN "\\"
  ELSE IF c = quote THEN quote
  ELSE "bad"

RECURSIVE unquoteBody(_, _, _)
\* The unescaped text of in[i:], or ok = FALSE on a syntax error.
unquoteBody(in, i, quote) ==
  IF i >= Len(in) THEN [ok |-> TRUE, s |-> "", n |-> 0]
  ELSE LET c == Byte(in, i)
       IN IF c = "\n" \/ c = quote THEN [ok |-> FALSE, s |-> "", n |-> 0]
          ELSE IF c = "\\"
               THEN IF i + 1 >= Len(in)
                       \/ UnescapeByte(Byte(in, i + 1), quote) = "bad"
                    THEN [ok |-> FALSE, s |-> "", n |-> 0]
                    ELSE LET r == unquoteBody(in, i + 2, quote)
                         IN [ok |-> r.ok, n |-> r.n + 1,
                             s |-> UnescapeByte(Byte(in, i + 1), quote) \o r.s]
               ELSE LET r == unquoteBody(in, i + 1, quote)
                    IN [ok |-> r.ok, s |-> c \o r.s, n |-> r.n + 1]

\* strconv.Unquote on a token the lexer cut: "..." is a string of any length,
\* '...' is a character literal and must hold exactly one character.
\* On an error the returned string is "".
Unquote(v) ==
  LET quote == Byte(v, 0)
      r == unquoteBody(Slice(v, 1, Len(v) - 1), 0, quote)
      ok == /\ Len(v) >= 2
            /\ r.ok
            /\ (quote = "'" => r.n = 1)
  IN [ok |-> ok, s |-> IF ok THEN r.s ELSE ""]

\* p.advance(): lex one token into p.cur.
advance(p) ==
  LET q == Call("skipWhitespaceAndComments", <<p>>)
      q1 == [q EXCEPT !.cur.err = nilErr, !.cur.offset = q.offset,
                      !.cur.line = q.line]
      c0 == Byte(q.s, 0)
      raise(r) == [r EXCEPT !.lexErr = IF @ = nilErr THEN r.cur.err ELSE @]
  IN IF q.done THEN q
     ELSE IF c0 \in Symbols
          THEN [q1 EXCEPT !.cur.value = c0, !.s = Drop(q.s, 1),
                          !.offset = @ + 1]
     ELSE IF c0 \in {"\"", "'"}
          THEN LET i == stringEnd(q.s, 1)
               IN IF i >= Len(q.s)
                  THEN raise(errorf(q1, "encountered EOF inside string"))
                  ELSE LET v == Take(q.s, i + 1)
                           u == Unquote(v)
                           q2 == [q1 EXCEPT !.cur.value = v,
                                            !.s = Drop(q.s, i + 1)]
                           q3 == IF u.ok THEN q2
                                 ELSE raise(errorf(q2, "invalid quoted string [" \o v \o "]"))
                       IN [q3 EXCEPT !.cur.unquoted = u.s,
                                     !.offset = @ + Len(v)]
     ELSE LET i == identEnd(q.s, 0)
          IN IF i = 0
             THEN raise(errorf(q1, "unexpected byte (" \o c0 \o ")"))
             ELSE [q1 EXCEPT !.cur.value = Take(q.s, i), !.s = Drop(q.s, i),
                             !.offset = @ + i]

\* back that does not mark the parser as backed.
backUnmarked(p) ==
  [p EXCEPT !.done = FALSE,
            !.cur.err = IF p.cur.err # eof THEN nilErr ELSE @]

\* p.back(): back off by one token.
back(p) ==
  [p EXCEPT !.done = FALSE, !.backed = TRUE,
            !.cur.err = IF p.cur.err # eof THEN nilErr ELSE @]

\* p.next(): the parser after the call; the returned token is its .cur.
next(p) ==
  IF p.backed \/ p.done THEN [p EXCEPT !.backed = FALSE]
  ELSE LET q == Call("advance", <<p>>)
       IN IF q.done /\ q.cur.err = nilErr
          THEN [q EXCEPT !.cur.value = "", !.cur.err = eof]
          ELSE q

\* ------------------------------------------------------------------------
\* AST nodes.  A pointer to a node is a reference: the node's kind, the name
\* of its file, the indexes of the enclosing messages from the file down
\* (path) and, for a node that is not a message, its index in the list of
\* its parent that holds it (n).  A FieldType is a reference of kind
\* "FieldType" whose file is the type's name.
\* ------------------------------------------------------------------------

Ref(kind, file, path, n) == [kind |-> kind, file |-> file, path |-> path, n |-> n]

nilRef == Ref("nil", "", <<>>, 0)

FileRef(name) == Ref("File", name, <<>>, 0)

\* MessageRef losing the enclosing messages.
MessageRefTopLevel(up, i) == Ref("Message", up.file, <<i>>, 0)

\* The message held at index i of the Messages of the file or message up.
MessageRef(up, i) == Ref("Message", up.file, Append(up.path, i), 0)

\* A non-message child held at index i of a list of the node up.
ChildRef(kind, up, i) == Ref(kind, up.file, up.path, i)

\* ast.FieldTypeMap: the primitive type names, in the order of the constants.
FieldTypeNames ==
  <<"double", "float", "int64", "uint64", "int32", "fixed64", "fixed32",
    "bool", "string", "bytes", "uint32", "sfixed32", "sfixed64", "sint32",
    "sint64">>

FieldTypeRef(name) == Ref("FieldType", name, <<>>, 0)

\* The zero ast.FieldType (min), which names no type.
minFieldType == FieldTypeRef("")

\* ast.Position of a token
astPosition(tok) == [Line |-> tok.line, Offset |-> tok.offset]

noPosition == [Line |-> 0, Offset |-> 0]

\* &ast.File{Name: filename}
newFile(name) ==
  [Name |-> name, Syntax |-> "", Package |-> <<>>, Options |-> <<>>,
   Imports |-> <<>>, PublicImports |-> <<>>, Messages |-> <<>>,
   Enums |-> <<>>, Services |-> <<>>, Extensions |-> <<>>, Comments |-> <<>>]

\* new(ast.Message)
newMessage ==
  [Position |-> noPosition, Name |-> "", Group |-> FALSE, Fields |-> <<>>,
   Extensions |-> <<>>, Oneofs |-> <<>>, Messages |-> <<>>, Enums |-> <<>>,
   ExtensionRanges |-> <<>>, Up |-> nilRef]

\* new(ast.Field) with Repeated set.
newFieldRepeated ==
  [Position |-> noPosition, TypeName |-> "", Type |-> nilRef,
   KeyTypeName |-> "", KeyType |-> minFieldType, Required |-> FALSE,
   Repeated |-> TRUE, Name |-> "", Tag |-> 0, HasDefault |-> FALSE,
   Default |-> "", HasPacked |-> FALSE, Packed |-> FALSE, Oneof |-> nilRef,
   Up |-> nilRef]

\* new(ast.Field)
newField ==
  [Position |-> noPosition, TypeName |-> "", Type |-> nilRef,
   KeyTypeName |-> "", KeyType |-> minFieldType, Required |-> FALSE,
   Repeated |-> FALSE, Name |-> "", Tag |-> 0, HasDefault |-> FALSE,
   Default |-> "", HasPacked |-> FALSE, Packed |-> FALSE, Oneof |-> nilRef,
   Up |-> nilRef]

\* new(ast.Oneof), new(ast.Enum), new(ast.EnumValue), new(ast.Service),
\* new(ast.Method), new(ast.Extension)
newOneof == [Position |-> noPosition, Name |-> "", Up |-> nilRef]

newEnum == [Position |-> noPosition, Name |-> "", Values |-> <<>>, Up |-> nilRef]

newEnumValue == [Position |-> noPosition, Name |-> "", Number |-> 0, Up |-> nilRef]

newService == [Position |-> noPosition, Name |-> "", Methods |-> <<>>, Up |-> nilRef]

newMethod ==
  [Position |-> noPosition, Name |-> "", InTypeName |-> "", OutTypeName |-> "",
   InType |-> nilRef, OutType |-> nilRef, Up |-> nilRef]

newExtension ==
  [Position |-> noPosition, Extendee |-> "", ExtendeeType |-> nilRef,
   Fields |-> <<>>, Up |-> nilRef]

\* ------------------------------------------------------------------------
\* The parser.  Every read function returns the parser after the call (p),
\* the error it returns (err, nilErr for nil) and what it has read.
\* ------------------------------------------------------------------------

\* return p.errorf(...)
fail(p, msg) == LET e == errorf(p, msg) IN [p |-> e, err |-> e.cur.err]

\* p.readToken(want)
readToken(p, want) ==
  LET q == Call("next", <<p>>)
  IN IF q.cur.err # nilErr THEN [p |-> q, err |-> q.cur.err]
     ELSE IF q.cur.value # want
          THEN fail(q, "got " \o q.cur.value \o ", want " \o want)
          ELSE [p |-> q, err |-> nilErr]

\* p.readString(): tok is the returned token.
readString(p) ==
  LET q == Call("next", <<p>>)
  IN IF q.cur.err # nilErr THEN [p |-> q, err |-> q.cur.err, tok |-> q.cur]
     ELSE IF Byte(q.cur.value, 0) # "\""
          THEN fail(q, "got " \o q.cur.value \o ", want string") @@ [tok |-> q.cur]
          ELSE [p |-> q, err |-> nilErr, tok |-> q.cur]

\* p.readBool()
readBool(p) ==
  LET q == Call("next", <<p>>)
  IN IF q.cur.err # nilErr THEN [p |-> q, err |-> q.cur.err, b |-> FALSE]
     ELSE IF q.cur.value = "true" THEN [p |-> q, err |-> nilErr, b |-> TRUE]
     ELSE IF q.cur.value = "false" THEN [p |-> q, err |-> nilErr, b |-> FALSE]
     ELSE fail(q, "got " \o q.cur.value \o ", want true or false") @@ [b |-> FALSE]

MaxInt32 == 2147483647

RECURSIVE parseUint(_, _, _)
\* The value of the decimal digits s[i:] on top of acc: -1 when a byte is not
\* a digit (syntax error), -2 when the value exceeds 1<<31 (range error),
\* -3 when it is exactly 1<<31.
parseUint(s, i, acc) ==
  IF i >= Len(s) THEN acc
  ELSE IF Byte(s, i) \notin DigitSet THEN -1
  ELSE LET d == DigitVal(Byte(s, i))
       IN IF acc = -2 \/ acc = -3 THEN parseUint(s, i + 1, -2)
          ELSE IF acc = 214748364 /\ d = 8 THEN parseUint(s, i + 1, -3)
          ELSE IF acc > 214748364 \/ (acc = 214748364 /\ d > 8)
               THEN parseUint(s, i + 1, -2)
               ELSE parseUint(s, i + 1, acc * 10 + d)

\* strconv.ParseInt(s, 10, 32): an optional sign and one or more decimal
\* digits, in the range of int32.
ParseInt(s) ==
  LET signed == Len(s) > 0 /\ Byte(s, 0) \in {"+", "-"}
      neg == Len(s) > 0 /\ Byte(s, 0) = "-"
      body == IF signed THEN Drop(s, 1) ELSE s
      un == IF body = "" THEN -1 ELSE parseUint(body, 0, 0)
  IN IF un = -1 THEN [ok |-> FALSE, n |-> 0, why |-> "invalid syntax"]
     ELSE IF un = -2 \/ (un = -3 /\ ~neg)
          THEN [ok |-> FALSE, n |-> 0, why |-> "value out of range"]
     ELSE IF un = -3 THEN [ok |-> TRUE, n |-> (-MaxInt32) - 1, why |-> ""]
     ELSE [ok |-> TRUE, n |-> IF neg THEN -un ELSE un, why |-> ""]

\* 1<<29 - 1, the tag that "max" stands for
MaxTag == 536870911

ReservedLow == 19000

ReservedHigh == 19999

\* readTagNumber without the check of the reserved range.
readTagNumberNoReserved(p, allowMax) ==
  LET q == Call("next", <<p>>)
      r == ParseInt(q.cur.value)
  IN IF q.cur.err # nilErr THEN [p |-> q, err |-> q.cur.err, n |-> 0]
     ELSE IF allowMax /\ q.cur.value = "max"
          THEN [p |-> q, err |-> nilErr, n |-> MaxTag]
     ELSE IF ~r.ok
          THEN fail(q, "bad field number " \o q.cur.value \o ": " \o r.why) @@ [n |-> 0]
     ELSE IF r.n < 1 \/ r.n >= MaxTag + 1
          THEN fail(q, "field number out of range") @@ [n |-> 0]
     ELSE [p |-> q, err |-> nilErr, n |-> r.n]

\* p.readTagNumber(allowMax)
readTagNumber(p, allowMax) ==
  LET q == Call("next", <<p>>)
      r == ParseInt(q.cur.value)
  IN IF q.cur.err # nilErr THEN [p |-> q, err |-> q.cur.err, n |-> 0]
     ELSE IF allowMax /\ q.cur.value = "max"
          THEN [p |-> q, err |-> nilErr, n |-> MaxTag]
     ELSE IF ~r.ok
          THEN fail(q, "bad field number " \o q.cur.value \o ": " \o r.why) @@ [n |-> 0]
     ELSE IF r.n < 1 \/ r.n >= MaxTag + 1
          THEN fail(q, "field number out of range") @@ [n |-> 0]
     ELSE IF ReservedLow <= r.n /\ r.n <= ReservedHigh
          THEN fail(q, "field number in reserved range [19000, 19999]") @@ [n |-> 0]
     ELSE [p |-> q, err |-> nilErr, n |-> r.n]

\* The for loop of readExtensionRange, rs being the ranges read so far.
\* Where the code returns `nil, err` after a failed p.next(), err is the
\* variable last assigned by readTagNumber, which is nil there.
readExtensionRangeLoop(p, rs) ==
  LET a == Call("readTagNumber", <<p, FALSE>>)
      q == Call("next", <<a.p>>)
      b == Call("readTagNumber", <<q, TRUE>>)
      q2 == Call("next", <<b.p>>)
      isTo == q.cur.value = "to"
      tokp == IF isTo THEN q2 ELSE q
      end == IF isTo THEN b.n ELSE a.n
  IN IF a.err # nilErr THEN [p |-> a.p, err |-> a.err, rs |-> <<>>]
     ELSE IF q.cur.err # nilErr THEN [p |-> q, err |-> a.err, rs |-> <<>>]
     ELSE IF isTo /\ b.err # nilErr THEN [p |-> b.p, err |-> b.err, rs |-> <<>>]
     ELSE IF isTo /\ a.n > b.n
          THEN fail(b.p, "bad extension range order") @@ [rs |-> <<>>]
     ELSE IF isTo /\ q2.cur.err # nilErr THEN [p |-> q2, err |-> b.err, rs |-> <<>>]
     ELSE IF tokp.cur.value # "," /\ tokp.cur.value # ";"
          THEN fail(tokp, "got " \o tokp.cur.value \o ", want , ; or to") @@ [rs |-> <<>>]
     ELSE IF tokp.cur.value = ";"
          THEN [p |-> tokp, err |-> nilErr, rs |-> Append(rs, <<a.n, end>>)]
          ELSE Call("readExtensionRangeLoop", <<tokp, Append(rs, <<a.n, end>>)>>)

\* p.readExtensionRange()
readExtensionRange(p) ==
  LET t == Call("readToken", <<p, "extensions">>)
  IN IF t.err # nilErr THEN [p |-> t.p, err |-> t.err, rs |-> <<>>]
     ELSE Call("readExtensionRangeLoop", <<t.p, <<>>>>)

\* The for loop of readFieldOptions.
readFieldOptionsLoop(p, f) ==
  LET q == Call("next", <<p>>)
      eq == Call("readToken", <<q, "=">>)
      v == Call("next", <<eq.p>>)
      pk == Call("readBool", <<eq.p>>)
      fd == [f EXCEPT !.HasDefault = TRUE]
      fp == [f EXCEPT !.HasPacked = TRUE]
      isDefault == q.cur.value = "default"
      \* after the option: f and the parser before the "," or "]"
      f2 == IF isDefault
            THEN [fd EXCEPT !.Default = IF f.TypeName = "string"
                                         THEN v.cur.unquoted ELSE v.cur.value]
            ELSE [fp EXCEPT !.Packed = pk.b]
      p2 == IF isDefault THEN v ELSE pk.p
      sep == Call("next", <<p2>>)
  IN IF p.done
     THEN fail(p, "unexpected EOF while parsing field options") @@ [f |-> f]
     ELSE IF q.cur.err # nilErr THEN [p |-> q, err |-> q.cur.err, f |-> f]
     ELSE IF q.cur.value # "default" /\ q.cur.value # "packed"
          THEN fail(q, "got " \o q.cur.value \o ", want default or packed") @@ [f |-> f]
     ELSE IF eq.err # nilErr
          THEN [p |-> eq.p, err |-> eq.err, f |-> IF isDefault THEN fd ELSE fp]
     ELSE IF isDefault /\ v.cur.err # nilErr THEN [p |-> v, err |-> v.cur.err, f |-> fd]
     ELSE IF ~isDefault /\ pk.err # nilErr THEN [p |-> pk.p, err |-> pk.err, f |-> fp]
     ELSE IF sep.cur.err # nilErr THEN [p |-> sep, err |-> sep.cur.err, f |-> f2]
     ELSE IF sep.cur.value = "," THEN Call("readFieldOptionsLoop", <<sep, f2>>)
     ELSE IF sep.cur.value = "]" THEN [p |-> sep, err |-> nilErr, f |-> f2]
     ELSE fail(sep, "got " \o sep.cur.value \o ", want , or ]") @@ [f |-> f2]

\* p.readFieldOptions(f)
readFieldOptions(p, f) ==
  LET t == Call("readToken", <<p, "[">>)
  IN IF t.err # nilErr THEN [p |-> t.p, err |-> t.err, f |-> f]
     ELSE Call("readFieldOptionsLoop", <<t.p, f>>)


\* readField from the label parseFromFieldName on.  up is the node f.Up
\* points to, returned with the group message appended when f is a group.
readFieldFromName(p, f, up) ==
  LET inMsg == f.Up.kind = "Message"
      nm == Call("next", <<p>>)
      f1 == [f EXCEPT !.Name = nm.cur.value]
      eq == Call("readToken", <<nm, "=">>)
      tg == Call("readTagNumber", <<eq.p, FALSE>>)
      f2 == [f1 EXCEPT !.Tag = tg.n]
      \* group
      ob == Call("readToken", <<tg.p, "{">>)
      groupRef == MessageRef(f.Up, Len(up.Messages) + 1)
      group == [newMessage EXCEPT !.Position = astPosition(ob.p.cur),
                                  !.Name = f2.Name, !.Group = TRUE, !.Up = f.Up]
      gc == Call("readMessageContents", <<ob.p, group, groupRef, nilRef>>)
      f3 == [f2 EXCEPT !.TypeName = f2.Name]
      up3 == [up EXCEPT !.Messages = Append(@, gc.msg)]
      cb == Call("readToken", <<gc.p, "}">>)
      gsemi == Call("readToken", <<cb.p, ";">>)
      \* not a group
      br == Call("readToken", <<tg.p, "[">>)
      fo == Call("readFieldOptions", <<Call("back", <<br.p>>), f2>>)
      p4 == IF br.err = nilErr THEN fo.p ELSE Call("back", <<br.p>>)
      f4 == IF br.err = nilErr THEN fo.f ELSE f2
      semi == Call("readToken", <<p4, ";">>)
  IN IF nm.cur.err # nilErr THEN [p |-> nm, err |-> nm.cur.err, f |-> f, up |-> up]
     ELSE IF eq.err # nilErr THEN [p |-> eq.p, err |-> eq.err, f |-> f1, up |-> up]
     ELSE IF tg.err # nilErr THEN [p |-> tg.p, err |-> tg.err, f |-> f1, up |-> up]
     ELSE IF f2.TypeName = "group" /\ inMsg
          THEN IF ob.err # nilErr THEN [p |-> ob.p, err |-> ob.err, f |-> f2, up |-> up]
               ELSE IF gc.err # nilErr
                    THEN [p |-> gc.p, err |-> gc.err, f |-> f2, up |-> up]
               ELSE IF cb.err # nilErr
                    THEN [p |-> cb.p, err |-> cb.err, f |-> f3, up |-> up3]
               ELSE [p |-> IF gsemi.err # nilErr THEN Call("back", <<gsemi.p>>) ELSE gsemi.p,
                     err |-> nilErr, f |-> f3, up |-> up3]
     ELSE IF br.err = nilErr /\ fo.err # nilErr
          THEN [p |-> fo.p, err |-> fo.err, f |-> fo.f, up |-> up]
     ELSE [p |-> semi.p, err |-> semi.err, f |-> f4, up |-> up]

\* p.readField(f): f.Up is already set; up is the node it points to.
readField(p, f, up) ==
  LET q == Call("next", <<p>>)
      v == q.cur.value
      f0 == [f EXCEPT !.Position = astPosition(q.cur)]
      \* map < Key , Value >
      lt == Call("readToken", <<q, "<">>)
      k == Call("next", <<lt.p>>)
      fk == [f0 EXCEPT !.KeyTypeName = k.cur.value]
      cm == Call("readToken", <<k, ",">>)
      tv == Call("next", <<cm.p>>)
      fv == [fk EXCEPT !.TypeName = tv.cur.value]
      gt == Call("readToken", <<tv, ">">>)
      \* required / optional / repeated / a type name
      fl == IF v = "required" THEN [f0 EXCEPT !.Required = TRUE]
            ELSE IF v = "repeated" THEN [f0 EXCEPT !.Repeated = TRUE]
            ELSE f0
      q1 == IF v \in {"required", "optional", "repeated"} THEN q ELSE Call("back", <<q>>)
      ty == Call("next", <<q1>>)
  IN IF q.cur.err # nilErr THEN [p |-> q, err |-> q.cur.err, f |-> f, up |-> up]
     ELSE IF v = "map"
          THEN IF lt.err # nilErr THEN [p |-> lt.p, err |-> lt.err, f |-> f0, up |-> up]
               ELSE IF k.cur.err # nilErr
                    THEN [p |-> k, err |-> k.cur.err, f |-> f0, up |-> up]
               ELSE IF cm.err # nilErr
                    THEN [p |-> cm.p, err |-> cm.err, f |-> fk, up |-> up]
               ELSE IF tv.cur.err # nilErr
                    THEN [p |-> tv, err |-> tv.cur.err, f |-> fk, up |-> up]
               ELSE IF gt.err # nilErr
                    THEN [p |-> gt.p, err |-> gt.err, f |-> fv, up |-> up]
               ELSE Call("readFieldFromName", <<gt.p, [fv EXCEPT !.Repeated = TRUE], up>>)
     ELSE IF ty.cur.err # nilErr THEN [p |-> ty, err |-> ty.cur.err, f |-> fl, up |-> up]
     ELSE Call("readFieldFromName", <<ty, [fl EXCEPT !.TypeName = ty.cur.value], up>>)

\* p.readEnum(enum): the for loop over the enum values.  self is the
\* reference of the enum being read.
readEnumLoop(p, enum, self) ==
  LET q == Call("next", <<p>>)
      semi == Call("readToken", <<q, ";">>)
      ev == [newEnumValue EXCEPT !.Position = astPosition(q.cur),
                                 !.Name = q.cur.value, !.Up = self]
      enum1 == [enum EXCEPT !.Values = Append(@, ev)]
      eq == Call("readToken", <<q, "=">>)
      nt == Call("next", <<eq.p>>)
      num == ParseInt(nt.cur.value)
      enum2 == [enum EXCEPT !.Values = Append(@, [ev EXCEPT !.Number = num.n])]
      vs == Call("readToken", <<nt, ";">>)
  IN IF p.done THEN fail(p, "unexpected EOF while parsing enum") @@ [enum |-> enum]
     ELSE IF q.cur.err # nilErr THEN [p |-> q, err |-> q.cur.err, enum |-> enum]
     ELSE IF q.cur.value = "}"
          THEN [p |-> IF semi.err # nilErr THEN Call("back", <<semi.p>>) ELSE semi.p,
                err |-> nilErr, enum |-> enum]
     ELSE IF eq.err # nilErr THEN [p |-> eq.p, err |-> eq.err, enum |-> enum1]
     ELSE IF nt.cur.err # nilErr THEN [p |-> nt, err |-> nt.cur.err, enum |-> enum1]
     ELSE IF ~num.ok
          THEN fail(nt, "bad enum number " \o nt.cur.value \o ": " \o num.why)
               @@ [enum |-> enum1]
     ELSE IF vs.err # nilErr THEN [p |-> vs.p, err |-> vs.err, enum |-> enum2]
     ELSE Call("readEnumLoop", <<vs.p, enum2, self>>)

\* p.readEnum(enum)
readEnum(p, self) ==
  LET t == Call("readToken", <<p, "enum">>)
      e0 == [newEnum EXCEPT !.Position = astPosition(t.p.cur)]
      nm == Call("next", <<t.p>>)
      e1 == [e0 EXCEPT !.Name = nm.cur.value]
      ob == Call("readToken", <<nm, "{">>)
  IN IF t.err # nilErr THEN [p |-> t.p, err |-> t.err, enum |-> newEnum]
     ELSE IF nm.cur.err # nilErr THEN [p |-> nm, err |-> nm.cur.err, enum |-> e0]
     ELSE IF ob.err # nilErr THEN [p |-> ob.p, err |-> ob.err, enum |-> e1]
     ELSE Call("readEnumLoop", <<ob.p, e1, self>>)

\* p.readMessageContents(msg).  self is the reference of msg (the pointer the
\* code hands to its children as Up) and oneof the local variable oneof: the
\* reference of the oneof being read, nilRef outside one.
readMessageContents(p, msg, self, oneof) ==
  LET q == Call("next", <<p>>)
      v == q.cur.value
      \* case "extend"
      ex == Call("readExtension", <<Call("back", <<q>>), ChildRef("Extension", self, Len(msg.Extensions) + 1)>>)
      \* case "oneof"
      oo == [newOneof EXCEPT !.Position = astPosition(q.cur)]
      on == Call("next", <<q>>)
      oo1 == [oo EXCEPT !.Name = on.cur.value, !.Up = self]
      oob == Call("readToken", <<on, "{">>)
      \* case "message"
      nm == Call("readMessage", <<Call("back", <<q>>), MessageRef(self, Len(msg.Messages) + 1)>>)
      \* case "enum"
      ne == Call("readEnum", <<Call("back", <<q>>), ChildRef("Enum", self, Len(msg.Enums) + 1)>>)
      \* case "extensions"
      er == Call("readExtensionRange", <<Call("back", <<q>>)>>)
      \* default: a field
      field == [newField EXCEPT !.Oneof = oneof, !.Up = self]
      rf == Call("readField", <<Call("back", <<q>>), field, msg>>)
  IN IF p.done
     THEN fail(p, "unexpected EOF while parsing message") @@ [msg |-> msg]
     ELSE IF q.cur.err # nilErr THEN [p |-> q, err |-> q.cur.err, msg |-> msg]
     ELSE IF v = "extend"
          THEN IF ex.err # nilErr
               THEN [p |-> ex.p, err |-> ex.err,
                     msg |-> [msg EXCEPT !.Extensions = Append(@, ex.ext)]]
               ELSE Call("readMessageContents", <<ex.p,
                      [msg EXCEPT !.Extensions = Append(@, [ex.ext EXCEPT !.Up = self])],
                      self, oneof>>)
     ELSE IF v = "oneof"
          THEN IF oneof # nilRef
               THEN fail(q, "nested oneof not permitted") @@ [msg |-> msg]
               ELSE IF on.cur.err # nilErr
                    THEN [p |-> on, err |-> on.cur.err,
                          msg |-> [msg EXCEPT !.Oneofs = Append(@, oo)]]
               ELSE IF oob.err # nilErr
                    THEN [p |-> oob.p, err |-> oob.err,
                          msg |-> [msg EXCEPT !.Oneofs = Append(@, oo1)]]
               ELSE Call("readMessageContents", <<oob.p,
                      [msg EXCEPT !.Oneofs = Append(@, oo1)], self,
                      ChildRef("Oneof", self, Len(msg.Oneofs) + 1)>>)
     ELSE IF v = "message"
          THEN IF nm.err # nilErr
               THEN [p |-> nm.p, err |-> nm.err,
                     msg |-> [msg EXCEPT !.Messages = Append(@, nm.msg)]]
               ELSE Call("readMessageContents", <<nm.p,
                      [msg EXCEPT !.Messages = Append(@, [nm.msg EXCEPT !.Up = self])],
                      self, oneof>>)
     ELSE IF v = "enum"
          THEN IF ne.err # nilErr
               THEN [p |-> ne.p, err |-> ne.err,
                     msg |-> [msg EXCEPT !.Enums = Append(@, ne.enum)]]
               ELSE Call("readMessageContents", <<ne.p,
                      [msg EXCEPT !.Enums = Append(@, [ne.enum EXCEPT !.Up = self])],
                      self, oneof>>)
     ELSE IF v = "extensions"
          THEN IF er.err # nilErr THEN [p |-> er.p, err |-> er.err, msg |-> msg]
               ELSE Call("readMessageContents", <<er.p,
                      [msg EXCEPT !.ExtensionRanges = @ \o er.rs], self, oneof>>)
     ELSE IF v = "}"
          THEN IF oneof # nilRef
               THEN Call("readMessageContents", <<q, msg, self, nilRef>>)
               ELSE [p |-> Call("back", <<q>>), err |-> nilErr, msg |-> msg]
     ELSE IF rf.err # nilErr
          THEN [p |-> rf.p, err |-> rf.err,
                msg |-> [rf.up EXCEPT !.Fields = Append(@, rf.f)]]
          ELSE Call("readMessageContents", <<rf.p,
                 [rf.up EXCEPT !.Fields = Append(@, rf.f)], self, oneof>>)

\* p.readMessage(msg); self is the reference of msg.  The caller sets msg.Up.
readMessage(p, self) ==
  LET t == Call("readToken", <<p, "message">>)
      m0 == [newMessage EXCEPT !.Position = astPosition(t.p.cur)]
      nm == Call("next", <<t.p>>)
      m1 == [m0 EXCEPT !.Name = nm.cur.value]
      ob == Call("readToken", <<nm, "{">>)
      mc == Call("readMessageContents", <<ob.p, m1, self, nilRef>>)
      cb == Call("readToken", <<mc.p, "}">>)
  IN IF t.err # nilErr THEN [p |-> t.p, err |-> t.err, msg |-> newMessage]
     ELSE IF nm.cur.err # nilErr THEN [p |-> nm, err |-> nm.cur.err, msg |-> m0]
     ELSE IF ob.err # nilErr THEN [p |-> ob.p, err |-> ob.err, msg |-> m1]
     ELSE IF mc.err # nilErr THEN [p |-> mc.p, err |-> mc.err, msg |-> mc.msg]
     ELSE [p |-> cb.p, err |-> cb.err, msg |-> mc.msg]

\* The for loop of readExtension over the fields of an extend block.
readExtensionLoop(p, ext, self) ==
  LET q == Call("next", <<p>>)
      field == [newField EXCEPT !.Up = self]
      rf == Call("readField", <<Call("back", <<q>>), field, ext>>)
  IN IF p.done THEN fail(p, "unexpected EOF while parsing extension") @@ [ext |-> ext]
     ELSE IF q.cur.err # nilErr THEN [p |-> q, err |-> q.cur.err, ext |-> ext]
     ELSE IF q.cur.value = "}" THEN [p |-> q, err |-> nilErr, ext |-> ext]
     ELSE IF rf.err # nilErr
          THEN [p |-> rf.p, err |-> rf.err,
                ext |-> [rf.up EXCEPT !.Fields = Append(@, rf.f)]]
          ELSE Call("readExtensionLoop", <<rf.p, [rf.up EXCEPT !.Fields = Append(@, rf.f)], self>>)

\* p.readExtension(ext); self is the reference of ext.
readExtension(p, self) ==
  LET t == Call("readToken", <<p, "extend">>)
      e0 == [newExtension EXCEPT !.Position = astPosition(t.p.cur)]
      nm == Call("next", <<t.p>>)
      e1 == [e0 EXCEPT !.Extendee = nm.cur.value]
      ob == Call("readToken", <<nm, "{">>)
  IN IF t.err # nilErr THEN [p |-> t.p, err |-> t.err, ext |-> newExtension]
     ELSE IF nm.cur.err # nilErr THEN [p |-> nm, err |-> nm.cur.err, ext |-> e0]
     ELSE IF ob.err # nilErr THEN [p |-> ob.p, err |-> ob.err, ext |-> e1]
     ELSE Call("readExtensionLoop", <<ob.p, e1, self>>)

\* The for loop of readService over the methods.
readServiceLoop(p, srv, self) ==
  LET q == Call("next", <<p>>)
      nm == Call("next", <<q>>)
      mth == [newMethod EXCEPT !.Position = astPosition(nm.cur),
                               !.Name = nm.cur.value, !.Up = self]
      o1 == Call("readToken", <<nm, "(">>)
      in == Call("next", <<o1.p>>)
      mth1 == [mth EXCEPT !.InTypeName = in.cur.value]
      c1 == Call("readToken", <<in, ")">>)
      rt == Call("readToken", <<c1.p, "returns">>)
      o2 == Call("readToken", <<rt.p, "(">>)
      out == Call("next", <<o2.p>>)
      mth2 == [mth1 EXCEPT !.OutTypeName = out.cur.value]
      c2 == Call("readToken", <<out, ")">>)
      semi == Call("readToken", <<c2.p, ";">>)
      with(m) == [srv EXCEPT !.Methods = Append(@, m)]
  IN IF p.done THEN fail(p, "unexpected EOF while parsing service") @@ [srv |-> srv]
     ELSE IF q.cur.err # nilErr THEN [p |-> q, err |-> q.cur.err, srv |-> srv]
     ELSE IF q.cur.value = "}" THEN [p |-> q, err |-> nilErr, srv |-> srv]
     ELSE IF q.cur.value # "rpc"
          THEN fail(q, "got " \o q.cur.value \o ", want rpc or }") @@ [srv |-> srv]
     ELSE IF nm.cur.err # nilErr THEN [p |-> nm, err |-> nm.cur.err, srv |-> srv]
     ELSE IF o1.err # nilErr THEN [p |-> o1.p, err |-> o1.err, srv |-> with(mth)]
     ELSE IF in.cur.err # nilErr THEN [p |-> in, err |-> in.cur.err, srv |-> with(mth)]
     ELSE IF c1.err # nilErr THEN [p |-> c1.p, err |-> c1.err, srv |-> with(mth1)]
     ELSE IF rt.err # nilErr THEN [p |-> rt.p, err |-> rt.err, srv |-> with(mth1)]
     ELSE IF o2.err # nilErr THEN [p |-> o2.p, err |-> o2.err, srv |-> with(mth1)]
     ELSE IF out.cur.err # nilErr THEN [p |-> out, err |-> out.cur.err, srv |-> with(mth1)]
     ELSE IF c2.err # nilErr THEN [p |-> c2.p, err |-> c2.err, srv |-> with(mth2)]
     ELSE IF semi.err # nilErr THEN [p |-> semi.p, err |-> semi.err, srv |-> with(mth2)]
     ELSE Call("readServiceLoop", <<semi.p, with(mth2), self>>)

\* p.readService(srv); self is the reference of srv.
readService(p, self) ==
  LET t == Call("readToken", <<p, "service">>)
      s0 == [newService EXCEPT !.Position = astPosition(t.p.cur)]
      nm == Call("next", <<t.p>>)
      s1 == [s0 EXCEPT !.Name = nm.cur.value]
      ob == Call("readToken", <<nm, "{">>)
  IN IF t.err # nilErr THEN [p |-> t.p, err |-> t.err, srv |-> newService]
     ELSE IF nm.cur.err # nilErr THEN [p |-> nm, err |-> nm.cur.err, srv |-> s0]
     ELSE IF ob.err # nilErr THEN [p |-> ob.p, err |-> ob.err, srv |-> s1]
     ELSE Call("readServiceLoop", <<ob.p, s1, self>>)

\* The for loop of the "package" case of readFile; pkg is the text so far.
readPackageLoop(p, pkg) ==
  LET q == Call("next", <<p>>)
      v == q.cur.value
  IN IF q.cur.err # nilErr THEN [p |-> q, err |-> q.cur.err, pkg |-> pkg]
     ELSE IF v = ";" THEN [p |-> q, err |-> nilErr, pkg |-> pkg]
     ELSE IF v = "." /\ (pkg = "" \/ HasSuffix(pkg, "."))
          THEN fail(q, "got ., want package name") @@ [pkg |-> pkg]
     ELSE IF v # "." /\ pkg # "" /\ ~HasSuffix(pkg, ".")
          THEN fail(q, "got " \o v \o ", want . or ;") @@ [pkg |-> pkg]
     ELSE Call("readPackageLoop", <<q, pkg \o v>>)

RECURSIVE TrimRightSpace(_)
\* strings.TrimRightFunc(line, unicode.IsSpace)
TrimRightSpace(line) ==
  IF line # "" /\ isWhitespace(Byte(line, Len(line) - 1))
  THEN TrimRightSpace(Take(line, Len(line) - 1))
  ELSE line

RECURSIVE LeadingSpace(_, _)
\* len(line) - len(strings.TrimLeftFunc(line, unicode.IsSpace)), from index i
LeadingSpace(line, i) ==
  IF i < Len(line) /\ isWhitespace(Byte(line, i)) THEN LeadingSpace(line, i + 1) ELSE i

RECURSIVE CommonPrefix(_, _)
\* for !strings.HasPrefix(line, prefix) { prefix = prefix[:len(prefix)-1] }
CommonPrefix(line, prefix) ==
  IF HasPrefix(line, prefix) THEN prefix
  ELSE CommonPrefix(line, Take(prefix, Len(prefix) - 1))

RECURSIVE stripLoop(_, _, _)
\* The loop that trims the lines of a comment and finds their common
\* whitespace prefix; it stops at the first line that leaves prefix empty.
stripLoop(text, i, prefix) ==
  IF i > Len(text) THEN [text |-> text, prefix |-> prefix]
  ELSE LET line == TrimRightSpace(text[i])
           text1 == [text EXCEPT ![i] = line]
           prefix1 == IF i = 1 THEN Take(line, LeadingSpace(line, 0))
                      ELSE CommonPrefix(line, prefix)
       IN IF prefix1 = "" THEN [text |-> text1, prefix |-> prefix1]
          ELSE stripLoop(text1, i + 1, prefix1)

\* commentRun ending every run at its first comment.
commentRunOfOne(cs, n) == n

RECURSIVE commentRun(_, _)
\* for ; n < len(p.comments); n++ { break unless on the line after }
commentRun(cs, n) ==
  IF n < Len(cs) /\ cs[n + 1].line = cs[n].line + 1 THEN commentRun(cs, n + 1) ELSE n

RECURSIVE handleComments(_)
\* The "Handle comments" loop of readFile: the ast.Comment blocks built
\* from the comments the lexer has accumulated.
handleComments(cs) ==
  IF cs = <<>> THEN <<>>
  ELSE LET n == commentRun(cs, 1)
           raw == [i \in 1..n |-> cs[i].text]
           st == stripLoop(raw, 1, "")
           text == IF st.prefix # ""
                   THEN [i \in 1..n |-> IF HasPrefix(st.text[i], st.prefix)
                                        THEN Drop(st.text[i], Len(st.prefix))
                                        ELSE st.text[i]]
                   ELSE st.text
           c == [Start |-> [Line |-> cs[1].line, Offset |-> cs[1].offset],
                 End |-> [Line |-> cs[n].line, Offset |-> cs[n].offset],
                 Text |-> text]
       IN <<c>> \o handleComments(SubSeq(cs, n + 1, Len(cs)))

\* The "Parse top-level things" loop of readFile.
readFileLoop(p, f) ==
  LET q == Call("next", <<p>>)
      v == q.cur.value
      self == FileRef(f.Name)
      \* case "package"
      pk == Call("readPackageLoop", <<q, "">>)
      \* case "option"
      ok == Call("next", <<q>>)
      oeq == Call("readToken", <<ok, "=">>)
      ov == Call("next", <<oeq.p>>)
      osemi == Call("readToken", <<ov, ";">>)
      \* case "syntax"
      seq == Call("readToken", <<q, "=">>)
      sv == Call("readString", <<seq.p>>)
      ssemi == Call("readToken", <<sv.p, ";">>)
      \* case "import"
      pub == Call("readToken", <<q, "public">>)
      fi == IF pub.err = nilErr
            THEN [f EXCEPT !.PublicImports = Append(@, Len(f.Imports))]
            ELSE f
      is == Call("readString", <<IF pub.err = nilErr THEN pub.p ELSE Call("back", <<pub.p>>)>>)
      fi1 == [fi EXCEPT !.Imports = Append(@, is.tok.unquoted)]
      isemi == Call("readToken", <<is.p, ";">>)
      \* case "message", "enum", "service", "extend"
      rm == Call("readMessage", <<Call("back", <<q>>), MessageRef(self, Len(f.Messages) + 1)>>)
      re == Call("readEnum", <<Call("back", <<q>>), ChildRef("Enum", self, Len(f.Enums) + 1)>>)
      rs == Call("readService", <<Call("back", <<q>>), ChildRef("Service", self, Len(f.Services) + 1)>>)
      rx == Call("readExtension", <<Call("back", <<q>>), ChildRef("Extension", self, Len(f.Extensions) + 1)>>)
  IN IF p.done THEN [p |-> p, err |-> nilErr, f |-> f]
     ELSE IF q.cur.err = eof THEN [p |-> q, err |-> nilErr, f |-> f]
     ELSE IF q.cur.err # nilErr THEN [p |-> q, err |-> q.cur.err, f |-> f]
     ELSE IF v = "package"
          THEN IF f.Package # <<>>
               THEN fail(q, "duplicate package statement") @@ [f |-> f]
               ELSE IF pk.err # nilErr THEN [p |-> pk.p, err |-> pk.err, f |-> f]
               ELSE Call("readFileLoop", <<pk.p, [f EXCEPT !.Package = Split(pk.pkg, ".")]>>)
     ELSE IF v = "option"
          THEN IF ok.cur.err # nilErr THEN [p |-> ok, err |-> ok.cur.err, f |-> f]
               ELSE IF oeq.err # nilErr THEN [p |-> oeq.p, err |-> oeq.err, f |-> f]
               ELSE IF ov.cur.err # nilErr THEN [p |-> ov, err |-> ov.cur.err, f |-> f]
               ELSE IF osemi.err # nilErr THEN [p |-> osemi.p, err |-> osemi.err, f |-> f]
               ELSE Call("readFileLoop", <<osemi.p,
                      [f EXCEPT !.Options = Append(@, <<ok.cur.value, ov.cur.value>>)]>>)
     ELSE IF v = "syntax"
          THEN IF f.Syntax # ""
               THEN fail(q, "duplicate syntax statement") @@ [f |-> f]
               ELSE IF seq.err # nilErr THEN [p |-> seq.p, err |-> seq.err, f |-> f]
               ELSE IF sv.err # nilErr THEN [p |-> sv.p, err |-> sv.err, f |-> f]
               ELSE IF sv.tok.unquoted \notin {"proto2", "proto3"}
                    THEN fail(sv.p, "invalid syntax value " \o sv.tok.unquoted) @@ [f |-> f]
               ELSE IF ssemi.err # nilErr
                    THEN [p |-> ssemi.p, err |-> ssemi.err,
                          f |-> [f EXCEPT !.Syntax = sv.tok.unquoted]]
               ELSE Call("readFileLoop", <<ssemi.p, [f EXCEPT !.Syntax = sv.tok.unquoted]>>)
     ELSE IF v = "import"
          THEN IF is.err # nilErr THEN [p |-> is.p, err |-> is.err, f |-> fi]
               ELSE IF isemi.err # nilErr THEN [p |-> isemi.p, err |-> isemi.err, f |-> fi1]
               ELSE Call("readFileLoop", <<isemi.p, fi1>>)
     ELSE IF v = "message"
          THEN IF rm.err # nilErr
               THEN [p |-> rm.p, err |-> rm.err,
                     f |-> [f EXCEPT !.Messages = Append(@, rm.msg)]]
               ELSE Call("readFileLoop", <<rm.p,
                      [f EXCEPT !.Messages = Append(@, [rm.msg EXCEPT !.Up = self])]>>)
     ELSE IF v = "enum"
          THEN IF re.err # nilErr
               THEN [p |-> re.p, err |-> re.err,
                     f |-> [f EXCEPT !.Enums = Append(@, re.enum)]]
               ELSE Call("readFileLoop", <<re.p,
                      [f EXCEPT !.Enums = Append(@, [re.enum EXCEPT !.Up = self])]>>)
     ELSE IF v = "service"
          THEN IF rs.err # nilErr
               THEN [p |-> rs.p, err |-> rs.err,
                     f |-> [f EXCEPT !.Services = Append(@, rs.srv)]]
               ELSE Call("readFileLoop", <<rs.p,
                      [f EXCEPT !.Services = Append(@, [rs.srv EXCEPT !.Up = self])]>>)
     ELSE IF v = "extend"
          THEN IF rx.err # nilErr
               THEN [p |-> rx.p, err |-> rx.err,
                     f |-> [f EXCEPT !.Extensions = Append(@, rx.ext)]]
               ELSE Call("readFileLoop", <<rx.p,
                      [f EXCEPT !.Extensions = Append(@, [rx.ext EXCEPT !.Up = self])]>>)
     ELSE fail(q, "unknown top-level thing " \o v) @@ [f |-> f]

\* p.readFile(f): the top-level loop, then the comments.
readFile(p, f) ==
  LET r == Call("readFileLoop", <<p, f>>)
  IN IF r.err # nilErr THEN r
     ELSE [p |-> [r.p EXCEPT !.comments = <<>>], err |-> nilErr,
           f |-> [r.f EXCEPT !.Comments = handleComments(r.p.comments)]]

\* ------------------------------------------------------------------------
\* The resolver.  fset is fset.Files, a sequence of files.  A scope is the
\* sequence of its objects, each a reference; the FileSet itself is the
\* reference FileSetRef.  The loader keeps the file names of a FileSet
\* distinct, so a file's name stands for its pointer.
\* ------------------------------------------------------------------------

FileSetRef == Ref("FileSet", "", <<>>, 0)

\* An error that is not a *parseError (fmt.Errorf).
Errorf(msg) == [kind |-> "error", message |-> msg, line |-> 0, offset |-> 0]

\* The file a reference points into.
FileOf(fset, ref) ==
  fset[CHOOSE i \in 1..Len(fset) :
         /\ fset[i].Name = ref.file
         /\ \A j \in 1..(i - 1) : fset[j].Name # ref.file]

RECURSIVE MessageAt(_, _)
\* The message reached from the file or message c along the indexes of path.
MessageAt(c, path) ==
  IF path = <<>> THEN c ELSE MessageAt(c.Messages[path[1]], Tail(path))

\* The file or message a File or Message reference points to.
Deref(fset, ref) == MessageAt(FileOf(fset, ref), ref.path)

\* The first index of seq whose element is named name, 0 if none.
IndexByName(seq, name) ==
  IF \E i \in 1..Len(seq) : seq[i].Name = name
  THEN CHOOSE i \in 1..Len(seq) :
         /\ seq[i].Name = name
         /\ \A j \in 1..(i - 1) : seq[j].Name # name
  ELSE 0

\* The File and Message cases of findName: the first message of that name,
\* else the first enum of that name, among the children of the object o.
findChild(fset, o, name) ==
  LET c == Deref(fset, o)
      mi == IndexByName(c.Messages, name)
      ei == IndexByName(c.Enums, name)
  IN IF mi # 0 THEN <<MessageRef(o, mi)>>
     ELSE IF ei # 0 THEN <<ChildRef("Enum", o, ei)>>
     ELSE <<>>

\* The FileSet case of findName: the loop over ov.Files from index i, ret
\* being the matches collected from the files without a package.
findInFiles(fset, name, i, ret) ==
  IF i > Len(fset) THEN ret
  ELSE IF Len(fset[i].Package) = 0
       THEN Call("findInFiles", <<fset, name, i + 1,
                        ret \o Call("findChild", <<fset, FileRef(fset[i].Name), name>>)>>)
       ELSE IF fset[i].Package[1] = name
            THEN <<FileRef(fset[i].Name)>>
            ELSE Call("findInFiles", <<fset, name, i + 1, ret>>)

\* s.findName(name): the objects named name right below the last object of s.
findName(fset, s, name) ==
  IF s = <<>> THEN <<>>
  ELSE LET o == s[Len(s)]
       IN IF o.kind = "FileSet" THEN Call("findInFiles", <<fset, name, 1, <<>>>>)
          ELSE IF o.kind \in {"File", "Message"} THEN Call("findChild", <<fset, o, name>>)
          ELSE <<>>


\* The loop of matchNameComponents over the candidates cs from index i.
matchCandidates(fset, s, parts, cs, i) ==
  IF i > Len(cs) THEN <<>>
  ELSE LET os == Append(s, cs[i])
           is == Call("matchNameComponents", <<fset, os, Tail(parts)>>)
       IN IF Len(parts) = 1 THEN os
          ELSE IF is # <<>> THEN is
          ELSE Call("matchCandidates", <<fset, s, parts, cs, i + 1>>)

\* matchNameComponents(s, parts): the scope of the match, <<>> for nil.
matchNameComponents(fset, s, parts) ==
  Call("matchCandidates", <<fset, s, parts, Call("findName", <<fset, s, parts[1]>>), 1>>)

\* resolveName trying the FileSet first and the innermost scope last.
resolveNameOutermostFirst(fset, ws, parts) ==
  LET hits == {n \in 1..Len(ws) :
                 Call("matchNameComponents", <<fset, SubSeq(ws, 1, n), parts>>) # <<>>}
      first == CHOOSE n \in hits : \A m \in hits : n <= m
  IN IF hits = {} THEN <<>>
     ELSE Call("matchNameComponents", <<fset, SubSeq(ws, 1, first), parts>>)

\* The loop of resolveName: ws goes from the scope s up to the FileSet.
resolveNameFrom(fset, ws, parts) ==
  IF ws = <<>> THEN <<>>
  ELSE LET os == Call("matchNameComponents", <<fset, ws, parts>>)
       IN IF os # <<>> THEN os
          ELSE Call("resolveNameFrom", <<fset, SubSeq(ws, 1, Len(ws) - 1), parts>>)

\* r.resolveName(s, name)
resolveName(fset, s, name) == Call("resolveNameFrom", <<fset, s, Split(name, ".")>>)

\* fieldTypeInverseMap / validMapKeyTypes
IsFieldTypeName(name) == \E i \in 1..Len(FieldTypeNames) : FieldTypeNames[i] = name

validMapKeyTypes ==
  {"int64", "uint64", "int32", "fixed64", "fixed32", "bool", "string",
   "uint32", "sfixed32", "sfixed64", "sint32", "sint64"}

\* r.resolveFieldTypeName(s, name): what the field's Type becomes, ok as in
\* the code's second result.
resolveFieldTypeName(fset, s, name) ==
  LET o == Call("resolveName", <<fset, s, name>>)
  IN IF IsFieldTypeName(name) THEN [ok |-> TRUE, ft |-> FieldTypeRef(name)]
     ELSE IF o # <<>> THEN [ok |-> TRUE, ft |-> o[Len(o)]]
     ELSE [ok |-> FALSE, ft |-> nilRef]

\* The "Resolve fields" loop of resolveMessage from field i on: the fields
\* as the loop leaves them and the error it returns.
resolveFields(fset, ms, fields, i) ==
  IF i > Len(fields) THEN [fields |-> fields, err |-> nilErr]
  ELSE LET field == fields[i]
           r == Call("resolveFieldTypeName", <<fset, ms, field.TypeName>>)
           f1 == [field EXCEPT !.Type = r.ft]
           ktn == field.KeyTypeName
           f2 == [f1 EXCEPT !.KeyType = FieldTypeRef(ktn)]
       IN IF ~r.ok
          THEN [fields |-> fields,
                err |-> Errorf("failed to resolve name \"" \o field.TypeName \o "\"")]
          ELSE IF ktn # "" /\ ktn \notin validMapKeyTypes
               THEN [fields |-> [fields EXCEPT ![i] = f1],
                     err |-> Errorf("invalid map key type \"" \o ktn \o "\"")]
          ELSE Call("resolveFields", <<fset, ms,
                 [fields EXCEPT ![i] = IF ktn # "" THEN f2 ELSE f1], i + 1>>)

\* resolveMessage leaving out the nested messages of msg.
resolveMessageDroppingNested(fset, s, msg, self) ==
  LET fr == Call("resolveFields", <<fset, Append(s, self), msg.Fields, 1>>)
  IN [msg |-> [msg EXCEPT !.Fields = fr.fields, !.Messages = <<>>],
      err |-> fr.err]

\* r.resolveMessage(s, msg); self is the reference of msg.  The error of the
\* call on a nested message is dropped, as in the code.
resolveMessage(fset, s, msg, self) ==
  LET ms == Append(s, self)
      fr == Call("resolveFields", <<fset, ms, msg.Fields, 1>>)
      m1 == [msg EXCEPT !.Fields = fr.fields]
  IN IF fr.err # nilErr THEN [msg |-> m1, err |-> fr.err]
     ELSE [msg |-> [m1 EXCEPT !.Messages =
                      [i \in 1..Len(msg.Messages) |->
                         Call("resolveMessage", <<fset, ms, msg.Messages[i],
                                        MessageRef(self, i)>>).msg]],
           err |-> nilErr]

\* The "Resolve messages" loop of resolveFile from message i on.
resolveFileMessages(fset, fs, f, i) ==
  IF i > Len(f.Messages) THEN [f |-> f, err |-> nilErr]
  ELSE LET r == Call("resolveMessage", <<fset, fs, f.Messages[i],
                               MessageRef(FileRef(f.Name), i)>>)
           f1 == [f EXCEPT !.Messages[i] = r.msg]
       IN IF r.err # nilErr
          THEN [f |-> f1,
                err |-> Errorf("(" \o f.Messages[i].Name \o "): " \o r.err.message)]
          ELSE Call("resolveFileMessages", <<fset, fs, f1, i + 1>>)

\* r.resolveFile(s, f)
resolveFile(fset, s, f) ==
  Call("resolveFileMessages", <<fset, Append(s, FileRef(f.Name)), f, 1>>)

\* The loop of resolveSymbols from file i on.  Lookup reads names and
\* packages only, which resolution never writes.
resolveFiles(fset, i) ==
  IF i > Len(fset) THEN [fset |-> fset, err |-> nilErr]
  ELSE LET r == Call("resolveFile", <<fset, <<FileSetRef>>, fset[i]>>)
           fset1 == [fset EXCEPT ![i] = r.f]
       IN IF r.err # nilErr THEN [fset |-> fset1, err |-> r.err]
          ELSE Call("resolveFiles", <<fset1, i + 1>>)

\* resolveSymbols(fset)
resolveSymbols(fset) == Call("resolveFiles", <<fset, 1>>)

\* ------------------------------------------------------------------------
\* The descriptor generator.  An optional (pointer) field of a descriptor is
\* a sequence of at most one element.  A run-time panic is an error of kind
\* "panic", which every caller passes on.
\* ------------------------------------------------------------------------

panic(msg) == [kind |-> "panic", message |-> msg, line |-> 0, offset |-> 0]

\* maybeString(s)
maybeString(s) == IF s # "" THEN <<s>> ELSE <<>>

\* The position of the byte c in the string letters, 0 if absent.
IndexIn(letters, c) ==
  IF \E i \in 1..Len(letters) : SubSeq(letters, i, i) = c
  THEN CHOOSE i \in 1..Len(letters) : SubSeq(letters, i, i) = c
  ELSE 0

UpperAlphabet == "ABCDEFGHIJKLMNOPQRSTUVWXYZ"

LowerAlphabet == "abcdefghijklmnopqrstuvwxyz"

\* unicode.ToUpper / unicode.ToLower on one byte
ToUpperByte(c) ==
  LET i == IndexIn(LowerAlphabet, c)
  IN IF i = 0 THEN c ELSE SubSeq(UpperAlphabet, i, i)

ToLowerByte(c) ==
  LET i == IndexIn(UpperAlphabet, c)
  IN IF i = 0 THEN c ELSE SubSeq(LowerAlphabet, i, i)

RECURSIVE ToLower(_)
\* strings.ToLower(s)
ToLower(s) == IF s = "" THEN "" ELSE ToLowerByte(Byte(s, 0)) \o ToLower(Drop(s, 1))

\* isSeparator of package strings: ASCII letters, digits and underscore are
\* not separators, every other ASCII byte is.
isSeparator(c) ==
  /\ c \notin LowerLetters
  /\ c \notin UpperLetters
  /\ c \notin DigitSet
  /\ c # "_"

RECURSIVE TitleFrom(_, _)
\* strings.Title(s) with prev the byte before s.
TitleFrom(s, prev) ==
  IF s = "" THEN ""
  ELSE LET c == Byte(s, 0)
       IN (IF isSeparator(prev) THEN ToUpperByte(c) ELSE c)
            \o TitleFrom(Drop(s, 1), c)

Title(s) == TitleFrom(s, " ")

\* camelCase leaving the name as it is.
camelCaseAsIs(s) == s

\* camelCase turns foo_bar into FooBar.
camelCase(s) ==
  LET words == Split(s, "_")
  IN Join([i \in 1..Len(words) |-> Title(words[i])], "")

RECURSIVE insertSorted(_, _)
insertSorted(s, x) ==
  IF s = <<>> THEN <<x>>
  ELSE IF x < s[1] THEN <<x>> \o s
  ELSE <<s[1]>> \o insertSorted(Tail(s), x)

\* sort.Sort leaving the slice in the opposite order.
reverseInt32(s) == [i \in 1..Len(s) |-> s[Len(s) + 1 - i]]

RECURSIVE sortInt32(_)
\* sort.Sort(int32Slice(s)): the increasing arrangement of s.
sortInt32(s) == IF s = <<>> THEN <<>> ELSE insertSorted(sortInt32(Tail(s)), s[1])

\* The enum an Enum reference points to.
EnumAt(fset, ref) == MessageAt(FileOf(fset, ref), ref.path).Enums[ref.n]

Reverse(s) == [i \in 1..Len(s) |-> s[Len(s) + 1 - i]]

\* The loop and the tail of qualifiedName: parts is what has been collected,
\* x the node the walk has reached.  x.(*ast.File) panics on anything else.
qualifiedNameFrom(fset, parts, x) ==
  IF x.kind = "Message"
  THEN LET v == Deref(fset, x)
       IN Call("qualifiedNameFrom", <<fset, Append(parts, v.Name), v.Up>>)
  ELSE IF x.kind = "Enum"
  THEN LET v == EnumAt(fset, x)
       IN Call("qualifiedNameFrom", <<fset, Append(parts, v.Name), v.Up>>)
  ELSE IF x.kind = "File"
  THEN [s |-> "." \o Join(Reverse(parts \o Reverse(FileOf(fset, x).Package)), "."),
        err |-> nilErr]
  ELSE [s |-> "", err |-> panic("interface conversion: not *ast.File")]

\* qualifiedName(x)
qualifiedName(fset, x) == Call("qualifiedNameFrom", <<fset, <<>>, x>>)

\* fieldTypeMap: the descriptor type of a primitive ast.FieldType.
fieldTypeMap ==
  [n \in {FieldTypeNames[i] : i \in 1..Len(FieldTypeNames)} |-> "TYPE_" \o n]

\* The extension an Extension reference points to.
ExtensionAt(fset, ref) == MessageAt(FileOf(fset, ref), ref.path).Extensions[ref.n]

\* &pb.FieldDescriptorProto{Name: .., Number: ..} and &pb.DescriptorProto{Name: ..}
newFieldDescriptorProto(name, number) ==
  [Name |-> name, Number |-> number, Label |-> "", Type |-> "",
   TypeName |-> <<>>, Extendee |-> <<>>, DefaultValue |-> <<>>,
   OneofIndex |-> <<>>]

newDescriptorProto(name) ==
  [Name |-> name, Field |-> <<>>, Extension |-> <<>>, NestedType |-> <<>>,
   EnumType |-> <<>>, ExtensionRange |-> <<>>, OneofDecl |-> <<>>,
   MapEntry |-> FALSE]

\* genEnum(enum)
genEnum(enum) ==
  [edp |-> [Name |-> enum.Name,
            Value |-> [i \in 1..Len(enum.Values) |->
                         [Name |-> enum.Values[i].Name,
                          Number |-> enum.Values[i].Number]]],
   err |-> nilErr]


\* The tail of genField after the map case: the switch on f.Type and the
\* extendee, default and oneof index.
genFieldType(fset, f, fdp) ==
  LET t == f.Type
      tq == Call("qualifiedName", <<fset, t>>)
      isGroup == t.kind = "Message" /\ Deref(fset, t).Group
      fdp1 == IF t.kind = "FieldType"
              THEN [fdp EXCEPT !.Type = fieldTypeMap[t.file]]
              ELSE IF t.kind = "Enum"
              THEN [fdp EXCEPT !.Type = "TYPE_ENUM", !.TypeName = <<tq.s>>]
              ELSE IF isGroup
              THEN [fdp EXCEPT !.Type = "TYPE_GROUP", !.Name = ToLower(@),
                               !.TypeName = <<tq.s>>]
              ELSE [fdp EXCEPT !.Type = "TYPE_MESSAGE", !.TypeName = <<tq.s>>]
      xq == Call("qualifiedName", <<fset, ExtensionAt(fset, f.Up).ExtendeeType>>)
      fdp2 == IF f.Up.kind = "Extension"
              THEN [fdp1 EXCEPT !.Extendee = <<xq.s>>] ELSE fdp1
      fdp3 == IF f.HasDefault
              THEN [fdp2 EXCEPT !.DefaultValue = <<f.Default>>] ELSE fdp2
      \* the oneofs before f.Oneof in f.Oneof.Up.Oneofs
      fdp4 == IF f.Oneof # nilRef
              THEN [fdp3 EXCEPT !.OneofIndex = <<f.Oneof.n - 1>>] ELSE fdp3
      none == [fdp |-> fdp, xdp |-> <<>>]
  IN IF t.kind = "FieldType" /\ t.file \notin DOMAIN fieldTypeMap
     THEN none @@ [err |-> Errorf("internal error: no mapping from ast.FieldType")]
     ELSE IF t.kind \notin {"FieldType", "Message", "Enum"}
     THEN none @@ [err |-> Errorf("internal error: bad ast.Field.Type type")]
     ELSE IF t.kind \in {"Message", "Enum"} /\ tq.err # nilErr
     THEN none @@ [err |-> tq.err]
     ELSE IF f.Up.kind = "Extension" /\ xq.err # nilErr
     THEN none @@ [err |-> xq.err]
     ELSE [fdp |-> fdp4, xdp |-> <<>>, err |-> nilErr]

\* genField(f): the field descriptor, the extra nested descriptor of a map
\* field (xdp, <<>> for nil) and the error.
genField(fset, f) ==
  LET fdp == [newFieldDescriptorProto(f.Name, f.Tag) EXCEPT !.Label =
                IF f.Required THEN "LABEL_REQUIRED"
                ELSE IF f.Repeated THEN "LABEL_REPEATED"
                ELSE "LABEL_OPTIONAL"]
      mname == camelCase(f.Name) \o "Entry"
      \* vmsg is not part of the FileSet: its fields are read through the
      \* record, their Up is only ever tested for being an extension.
      vref == Ref("MapEntry", f.Up.file, f.Up.path, 0)
      vmsg == [newMessage EXCEPT
                 !.Name = mname,
                 !.Fields = << [newField EXCEPT !.TypeName = f.KeyTypeName,
                                                !.Type = f.KeyType,
                                                !.Name = "key", !.Tag = 1,
                                                !.Up = vref],
                               [newField EXCEPT !.TypeName = f.TypeName,
                                                !.Type = f.Type,
                                                !.Name = "value", !.Tag = 2,
                                                !.Up = vref] >>,
                 !.Up = f.Up]
      xr == Call("genMessage", <<fset, vmsg>>)
      vq == Call("qualifiedNameFrom", <<fset, <<mname>>, vmsg.Up>>)
  IN IF f.KeyTypeName # ""
     THEN IF xr.err.kind = "panic"
          THEN [fdp |-> fdp, xdp |-> <<>>, err |-> xr.err]
          ELSE IF xr.err # nilErr
          THEN [fdp |-> fdp, xdp |-> <<>>,
                err |-> Errorf("internal error: " \o xr.err.message)]
          ELSE IF vq.err # nilErr
          THEN [fdp |-> fdp, xdp |-> <<>>, err |-> vq.err]
          ELSE [fdp |-> [fdp EXCEPT !.Type = "TYPE_MESSAGE",
                                    !.TypeName = <<vq.s>>],
                xdp |-> <<[xr.dp EXCEPT !.MapEntry = TRUE]>>,
                err |-> nilErr]
     ELSE Call("genFieldType", <<fset, f, fdp>>)

\* The loop of genExtension from field i on.
genExtensionLoop(fset, ext, i, fdps) ==
  IF i > Len(ext.Fields) THEN [fdps |-> fdps, err |-> nilErr]
  ELSE LET r == Call("genField", <<fset, ext.Fields[i]>>)
       IN IF r.err # nilErr THEN [fdps |-> <<>>, err |-> r.err]
          ELSE Call("genExtensionLoop", <<fset, ext, i + 1, Append(fdps, r.fdp)>>)

\* genExtension(ext)
genExtension(fset, ext) == Call("genExtensionLoop", <<fset, ext, 1, <<>>>>)

\* The loop of genMessage over m.Fields from field i on.
genMessageFields(fset, m, i, dp, extraNested) ==
  IF i > Len(m.Fields)
  THEN [dp |-> dp, extraNested |-> extraNested, err |-> nilErr]
  ELSE LET r == Call("genField", <<fset, m.Fields[i]>>)
       IN IF r.err # nilErr
          THEN [dp |-> dp, extraNested |-> extraNested, err |-> r.err]
          ELSE Call("genMessageFields", <<fset, m, i + 1,
                                [dp EXCEPT !.Field = Append(@, r.fdp)],
                                extraNested \o r.xdp>>)

\* The loop of genMessage over m.Extensions from extension i on.
genMessageExtensions(fset, m, i, dp) ==
  IF i > Len(m.Extensions) THEN [dp |-> dp, err |-> nilErr]
  ELSE LET r == Call("genExtension", <<fset, m.Extensions[i]>>)
       IN IF r.err # nilErr THEN [dp |-> dp, err |-> r.err]
          ELSE Call("genMessageExtensions", <<fset, m, i + 1,
                                    [dp EXCEPT !.Extension = @ \o r.fdps]>>)

\* The loop of genMessage over m.Messages from message i on.
genMessageNested(fset, m, i, dp) ==
  IF i > Len(m.Messages) THEN [dp |-> dp, err |-> nilErr]
  ELSE LET r == Call("genMessage", <<fset, m.Messages[i]>>)
       IN IF r.err # nilErr THEN [dp |-> dp, err |-> r.err]
          ELSE Call("genMessageNested", <<fset, m, i + 1,
                                [dp EXCEPT !.NestedType = Append(@, r.dp)]>>)

\* genExtensionRange with the stored end kept as it is (no half-open form).
genExtensionRangeInclusive(r) == [Start |-> r[1], End |-> r[2]]

\* The element genMessage appends to dp.ExtensionRange for the stored pair r:
\* DescriptorProto.ExtensionRange uses a half-open interval.
genExtensionRange(r) == [Start |-> r[1], End |-> r[2] + 1]

\* genMessage(m): dp is meaningful when err is nil.  The range end of the
\* descriptor is one past the last tag of the range.
genMessage(fset, m) ==
  LET r1 == Call("genMessageFields", <<fset, m, 1, newDescriptorProto(m.Name), <<>>>>)
      r2 == Call("genMessageExtensions", <<fset, m, 1, r1.dp>>)
      r3 == Call("genMessageNested", <<fset, m, 1, r2.dp>>)
      dp == [r3.dp EXCEPT
               !.NestedType = @ \o r1.extraNested,
               !.EnumType = [i \in 1..Len(m.Enums) |-> Call("genEnum", <<m.Enums[i]>>).edp],
               !.ExtensionRange =
                  [i \in 1..Len(m.ExtensionRanges) |->
                     genExtensionRange(m.ExtensionRanges[i])],
               !.OneofDecl = [i \in 1..Len(m.Oneofs) |-> [Name |-> m.Oneofs[i].Name]]]
  IN IF r1.err # nilErr THEN [dp |-> r1.dp, err |-> r1.err]
     ELSE IF r2.err # nilErr THEN [dp |-> r2.dp, err |-> r2.err]
     ELSE IF r3.err # nilErr THEN [dp |-> r3.dp, err |-> r3.err]
     ELSE [dp |-> dp, err |-> nilErr]

\* genMethod(mth)
genMethod(fset, mth) ==
  LET in == Call("qualifiedName", <<fset, mth.InType>>)
      out == Call("qualifiedName", <<fset, mth.OutType>>)
  IN IF in.err # nilErr THEN [mdp |-> <<>>, err |-> in.err]
     ELSE IF out.err # nilErr THEN [mdp |-> <<>>, err |-> out.err]
     ELSE [mdp |-> [Name |-> mth.Name, InputType |-> in.s, OutputType |-> out.s],
           err |-> nilErr]

\* The loop of genService from method i on.
genServiceLoop(fset, srv, i, sdp) ==
  IF i > Len(srv.Methods) THEN [sdp |-> sdp, err |-> nilErr]
  ELSE LET r == Call("genMethod", <<fset, srv.Methods[i]>>)
       IN IF r.err # nilErr THEN [sdp |-> sdp, err |-> r.err]
          ELSE Call("genServiceLoop", <<fset, srv, i + 1,
                              [sdp EXCEPT !.Method = Append(@, r.mdp)]>>)

\* genService(srv)
genService(fset, srv) ==
  Call("genServiceLoop", <<fset, srv, 1, [Name |-> srv.Name, Method |-> <<>>]>>)

HexDigits == "0123456789abcdefABCDEF"

OctalDigits == "01234567"

\* TRUE iff the first n bytes of s exist and all lie in the string digits.
AllIn(s, n, digits) ==
  /\ Len(s) >= n
  /\ \A i \in 0..(n - 1) : IndexIn(digits, Byte(s, i)) # 0

RECURSIVE strconvUnquoteBody(_)
\* The loop of strconv.Unquote over the text between double quotes.  A
\* decoded byte that a string of the model cannot hold (\a, \b, \v and the
\* numeric escapes) is kept as the text of its escape.
strconvUnquoteBody(s) ==
  LET c == Byte(s, 0)
      e == Byte(s, 1)
      after(n) == strconvUnquoteBody(Drop(s, n))
      keep(n) == [ok |-> after(n).ok, s |-> Take(s, n) \o after(n).s]
      put(ch) == [ok |-> after(2).ok, s |-> ch \o after(2).s]
      bad == [ok |-> FALSE, s |-> ""]
  IN IF s = "" THEN [ok |-> TRUE, s |-> ""]
     ELSE IF c = "\"" \/ c = "\n" THEN bad
     ELSE IF c # "\\" THEN [ok |-> after(1).ok, s |-> c \o after(1).s]
     ELSE IF Len(s) < 2 THEN bad
     ELSE IF e = "n" THEN put("\n")
     ELSE IF e = "t" THEN put("\t")
     ELSE IF e = "r" THEN put("\r")
     ELSE IF e = "f" THEN put("\f")
     ELSE IF e = "\\" THEN put("\\")
     ELSE IF e = "\"" THEN put("\"")
     ELSE IF e \in {"a", "b", "v"} THEN keep(2)
     ELSE IF e = "x" THEN IF AllIn(Drop(s, 2), 2, HexDigits) THEN keep(4) ELSE bad
     ELSE IF e = "u" THEN IF AllIn(Drop(s, 2), 4, HexDigits) THEN keep(6) ELSE bad
     ELSE IF e = "U" THEN IF AllIn(Drop(s, 2), 8, HexDigits) THEN keep(10) ELSE bad
     ELSE IF IndexIn(OctalDigits, e) # 0
          THEN IF AllIn(Drop(s, 1), 3, OctalDigits) /\ IndexIn("0123", e) # 0
               THEN keep(4) ELSE bad
     ELSE bad

\* strconv.Unquote(s) for an s that starts with a double quote.
strconvUnquote(s) ==
  IF Len(s) < 2 \/ Byte(s, Len(s) - 1) # "\"" THEN [ok |-> FALSE, s |-> ""]
  ELSE strconvUnquoteBody(Slice(s, 1, Len(s) - 1))

\* The loops of genFile over f.Messages, f.Services, f.Extensions, f.Options.
genFileMessages(fset, f, i, fdp) ==
  IF i > Len(f.Messages) THEN [fdp |-> fdp, err |-> nilErr]
  ELSE LET r == Call("genMessage", <<fset, f.Messages[i]>>)
       IN IF r.err # nilErr THEN [fdp |-> fdp, err |-> r.err]
          ELSE Call("genFileMessages", <<fset, f, i + 1,
                               [fdp EXCEPT !.MessageType = Append(@, r.dp)]>>)

genFileServices(fset, f, i, fdp) ==
  IF i > Len(f.Services) THEN [fdp |-> fdp, err |-> nilErr]
  ELSE LET r == Call("genService", <<fset, f.Services[i]>>)
       IN IF r.err # nilErr THEN [fdp |-> fdp, err |-> r.err]
          ELSE Call("genFileServices", <<fset, f, i + 1,
                               [fdp EXCEPT !.Service = Append(@, r.sdp)]>>)

genFileExtensions(fset, f, i, fdp) ==
  IF i > Len(f.Extensions) THEN [fdp |-> fdp, err |-> nilErr]
  ELSE LET r == Call("genExtension", <<fset, f.Extensions[i]>>)
       IN IF r.err # nilErr THEN [fdp |-> fdp, err |-> r.err]
          ELSE Call("genFileExtensions", <<fset, f, i + 1,
                                 [fdp EXCEPT !.Extension = @ \o r.fdps]>>)

genFileOptions(f, i, fdp) ==
  IF i > Len(f.Options) THEN [fdp |-> fdp, err |-> nilErr]
  ELSE LET opt == f.Options[i]
           isString == HasPrefix(opt[2], "\"")
           unq == Call("strconvUnquote", <<opt[2]>>)
           uo == [Name |-> Split(opt[1], "."),
                  StringValue |-> IF isString THEN <<unq.s>> ELSE <<>>,
                  IdentifierValue |-> IF isString THEN <<>> ELSE <<opt[2]>>]
       IN IF isString /\ ~unq.ok
          THEN [fdp |-> fdp, err |-> Errorf("invalid syntax")]
          ELSE Call("genFileOptions", <<f, i + 1, [fdp EXCEPT !.Options = Append(@, uo)]>>)

\* genFile(f)
genFile(fset, f) ==
  LET fdp0 == [Name |-> maybeString(f.Name),
               Package |-> maybeString(Join(f.Package, ".")),
               Dependency |-> f.Imports,
               PublicDependency |-> sortInt32(f.PublicImports),
               MessageType |-> <<>>, EnumType |-> <<>>, Service |-> <<>>,
               Extension |-> <<>>, Options |-> <<>>, Syntax |-> <<>>]
      r1 == Call("genFileMessages", <<fset, f, 1, fdp0>>)
      e1 == [r1.fdp EXCEPT !.EnumType =
               [i \in 1..Len(f.Enums) |-> Call("genEnum", <<f.Enums[i]>>).edp]]
      r2 == Call("genFileServices", <<fset, f, 1, e1>>)
      r3 == Call("genFileExtensions", <<fset, f, 1, r2.fdp>>)
      r4 == Call("genFileOptions", <<f, 1, r3.fdp>>)
  IN IF r1.err # nilErr THEN r1
     ELSE IF r2.err # nilErr THEN r2
     ELSE IF r3.err # nilErr THEN r3
     ELSE IF r4.err # nilErr THEN r4
     ELSE [fdp |-> [r4.fdp EXCEPT !.Syntax =
                      IF f.Syntax \in {"proto2", ""} THEN <<>> ELSE <<f.Syntax>>],
           err |-> nilErr]

\* The loop of Generate from file i on; File is nil (<<>>) with an error.
GenerateLoop(fset, i, files) ==
  IF i > Len(fset) THEN [File |-> files, err |-> nilErr]
  ELSE LET r == Call("genFile", <<fset, fset[i]>>)
       IN IF r.err # nilErr THEN [File |-> <<>>, err |-> r.err]
          ELSE Call("GenerateLoop", <<fset, i + 1, Append(files, r.fdp)>>)

\* Generate(fs)
Generate(fset) == Call("GenerateLoop", <<fset, 1, <<>>>>)

\* The method or function fn applied to the arguments a.
Call(fn, a) ==
  CASE fn = "next" -> next(a[1])
    [] fn = "advance" -> advance(a[1])
    [] fn = "skipWhitespaceAndComments" -> skipWhitespaceAndComments(a[1])
    [] fn = "back" -> back(a[1])
    [] fn = "readToken" -> readToken(a[1], a[2])
    [] fn = "readString" -> readString(a[1])
    [] fn = "readBool" -> readBool(a[1])
    [] fn = "readTagNumber" -> readTagNumber(a[1], a[2])
    [] fn = "readExtensionRangeLoop" -> readExtensionRangeLoop(a[1], a[2])
    [] fn = "readExtensionRange" -> readExtensionRange(a[1])
    [] fn = "readFieldOptionsLoop" -> readFieldOptionsLoop(a[1], a[2])
    [] fn = "readFieldOptions" -> readFieldOptions(a[1], a[2])
    [] fn = "readFieldFromName" -> readFieldFromName(a[1], a[2], a[3])
    [] fn = "readField" -> readField(a[1], a[2], a[3])
    [] fn = "readEnumLoop" -> readEnumLoop(a[1], a[2], a[3])
    [] fn = "readEnum" -> readEnum(a[1], a[2])
    [] fn = "readMessageContents" -> readMessageContents(a[1], a[2], a[3], a[4])
    [] fn = "readMessage" -> readMessage(a[1], a[2])
    [] fn = "readExtensionLoop" -> readExtensionLoop(a[1], a[2], a[3])
    [] fn = "readExtension" -> readExtension(a[1], a[2])
    [] fn = "readServiceLoop" -> readServiceLoop(a[1], a[2], a[3])
    [] fn = "readService" -> readService(a[1], a[2])
    [] fn = "readPackageLoop" -> readPackageLoop(a[1], a[2])
    [] fn = "readFileLoop" -> readFileLoop(a[1], a[2])
    [] fn = "readFile" -> readFile(a[1], a[2])
    [] fn = "findChild" -> findChild(a[1], a[2], a[3])
    [] fn = "findInFiles" -> findInFiles(a[1], a[2], a[3], a[4])
    [] fn = "findName" -> findName(a[1], a[2], a[3])
    [] fn = "matchCandidates" -> matchCandidates(a[1], a[2], a[3], a[4], a[5])
    [] fn = "matchNameComponents" -> matchNameComponents(a[1], a[2], a[3])
    [] fn = "resolveNameFrom" -> resolveNameFrom(a[1], a[2], a[3])
    [] fn = "resolveName" -> resolveName(a[1], a[2], a[3])
    [] fn = "resolveFieldTypeName" -> resolveFieldTypeName(a[1], a[2], a[3])
    [] fn = "resolveFields" -> resolveFields(a[1], a[2], a[3], a[4])
    [] fn = "resolveMessage" -> resolveMessage(a[1], a[2], a[3], a[4])
    [] fn = "resolveFileMessages" -> resolveFileMessages(a[1], a[2], a[3], a[4])
    [] fn = "resolveFile" -> resolveFile(a[1], a[2], a[3])
    [] fn = "resolveFiles" -> resolveFiles(a[1], a[2])
    [] fn = "resolveSymbols" -> resolveSymbols(a[1])
    [] fn = "qualifiedNameFrom" -> qualifiedNameFrom(a[1], a[2], a[3])
    [] fn = "qualifiedName" -> qualifiedName(a[1], a[2])
    [] fn = "genEnum" -> genEnum(a[1])
    [] fn = "genFieldType" -> genFieldType(a[1], a[2], a[3])
    [] fn = "genField" -> genField(a[1], a[2])
    [] fn = "genExtensionLoop" -> genExtensionLoop(a[1], a[2], a[3], a[4])
    [] fn = "genExtension" -> genExtension(a[1], a[2])
    [] fn = "genMessageFields" -> genMessageFields(a[1], a[2], a[3], a[4], a[5])
    [] fn = "genMessageExtensions" -> genMessageExtensions(a[1], a[2], a[3], a[4])
    [] fn = "genMessageNested" -> genMessageNested(a[1], a[2], a[3], a[4])
    [] fn = "genMessage" -> genMessage(a[1], a[2])
    [] fn = "genMethod" -> genMethod(a[1], a[2])
    [] fn = "genServiceLoop" -> genServiceLoop(a[1], a[2], a[3], a[4])
    [] fn = "genService" -> genService(a[1], a[2])
    [] fn = "strconvUnquote" -> strconvUnquote(a[1])
    [] fn = "genFileMessages" -> genFileMessages(a[1], a[2], a[3], a[4])
    [] fn = "genFileServices" -> genFileServices(a[1], a[2], a[3], a[4])
    [] fn = "genFileExtensions" -> genFileExtensions(a[1], a[2], a[3], a[4])
    [] fn = "genFileOptions" -> genFileOptions(a[1], a[2], a[3])
    [] fn = "genFile" -> genFile(a[1], a[2])
    [] fn = "GenerateLoop" -> GenerateLoop(a[1], a[2], a[3])
    [] fn = "Generate" -> Generate(a[1])

\* ------------------------------------------------------------------------
\* The file system and the inputs of a run
\* ------------------------------------------------------------------------

\* The most import statements in a file of the import-graph inputs, the
\* most requested filenames and the most import search roots.
MaxImports == 2

MaxRequested == 2

MaxRoots == 2

Names == {"a", "b", "c"}

Roots == {".", "x"}

\* The sequences over S of length at most n.
SeqsUpTo(S, n) == UNION {[1..m -> S] : m \in 0..n}

\* filepath.Join(root, name) for a root and a name without separators: empty
\* elements are dropped and the result is cleaned, so "." joined with a name
\* is the name.
filepathJoin(root, name) ==
  IF name = "" THEN root
  ELSE IF root \in {"", "."} THEN name
  ELSE root \o "/" \o name

\* What ioutil.ReadFile finds at a path: nothing (an error that satisfies
\* os.IsNotExist), a directory (a read error that does not), or a file.
missingEntry == [kind |-> "missing", buf |-> ""]

dirEntry == [kind |-> "dir", buf |-> ""]

fileEntry(body) == [kind |-> "file", buf |-> body]

\* The *PathError of reading a directory.
readError(path) ==
  [kind |-> "error", message |-> "read " \o path \o ": is a directory",
   line |-> 0, offset |-> 0]

\* A file made of one import statement per name of seq.
ImportBody(seq) == Join([i \in 1..Len(seq) |-> "import \"" \o seq[i] \o "\";"], "\n")

GraphBodies == {ImportBody(seq) : seq \in SeqsUpTo(Names, MaxImports)}

\* The texts the parsing inputs are derived from.
BaseTexts ==
  {"package p; import \"b\"; message A { optional int32 x = 1 [default = 5]; repeated A a = 2; }",
   "message O { message M { optional group G = 1 { } optional string s = 2; } enum E { Z = 0; } }",
   "message A { message B { optional Nope x = 1; } }",
   "message A { optional Nope x = 1; }",
   "import public \"b\"; option o = \"v\"; // c\nservice S { rpc M (A) returns (A); } message A { }",
   "message A { extensions 100 to 199, 500 to max; map<string, int32> m = 1; oneof o { string s = 2; } } extend A { optional int32 y = 100; }"}

\* Texts whose lex error lies where the parser pushes the token back.
SpecialTexts ==
  {"import \"\\z\";",
   "message O { message M { optional group G = 1 { } \"\\z\" x = 2; } }",
   "enum E { Z = 0; } \"\\z\" message A { }"}

\* The bytes put into a text to damage it: a byte no token starts with, a
\* quote that opens a string, and a backslash with a letter that is no escape.
Damage == {"@", "\"", "\\z"}

\* Every prefix of a base text, and every base text with one damage inserted.
DamagedTexts ==
  UNION {{Take(t, n) : n \in 0..Len(t)}
           \cup {Take(t, n) \o d \o Drop(t, n) : n \in 0..Len(t), d \in Damage}
         : t \in BaseTexts}

\* The tokens tried as a tag.
TagTokens ==
  {"0", "1", "2", "5", "+5", "-5", "007", "18999", "19000", "19500", "19999",
   "20000", "536870911", "536870912", "2147483647", "2147483648",
   "99999999999", "max", "x", "5x", "1.5", "0x10", "-", "+", "1_0", "00", "+0"}

FieldBody(tag) == "message M { optional int32 f = " \o tag \o "; }"

RangeEndBody(tag) == "message M { extensions 1 to " \o tag \o "; }"

RangeStartBody(tag) == "message M { extensions " \o tag \o "; }"

\* A declared extension range: a single tag (to = ""), "from to to" or
\* "from to max".
RangeTags == {"1", "5", "9"}

RangeItems ==
  [from : RangeTags, to : RangeTags \cup {"", "max"}]

RangeText(r) == IF r.to = "" THEN r.from ELSE r.from \o " to " \o r.to

MaxRanges == 2

RangeLists == UNION {[1..m -> RangeItems] : m \in 1..MaxRanges}

RangesBody(rs) ==
  "message M { extensions "
    \o Join([i \in 1..Len(rs) |-> RangeText(rs[i])], ", ") \o "; }"

\* The package statements tried in front of a file: none, one component, two
\* components, and a name that starts with a dot.
QualPackages == {"", "package p; ", "package p.q; ", "package .p; "}

\* Files whose fields, methods and extensions refer to messages and enums at
\* several depths.
QualBodies ==
  {"message O { message M { enum E { Z = 0; } optional E e = 1; optional M m = 2; } optional M.E f = 3; }",
   "enum T { Y = 0; } message U { optional T t = 1; } service S { rpc R (U) returns (U); } extend U { optional U v = 9; }"}

QualTexts == {pk \o b : pk \in QualPackages, b \in QualBodies}

\* Files with map fields: between nested messages, in a nested message, with
\* a message as the value, with and without a package.
MapTexts ==
  {"package p; message A { map<string, int32> m_x = 1; message N { } map<int32, N> n = 2; message Q { map<bool, A> z = 1; } }",
   "message A { optional int32 i = 1; map<int64, string> fooBar_baz = 2; repeated A a = 3; map<string, A> b2_c = 4; message N { } }"}

\* The key type names tried in a map field: the primitive type names, the
\* name of a message and a name that nothing bears.
MapKeyNames == {FieldTypeNames[i] : i \in 1..Len(FieldTypeNames)} \cup {"A", "Nope"}

\* A map field with the key type kt in a top-level and in a nested message.
MapKeyBody(kt) == "message A { map<" \o kt \o ", int32> m = 1; }"

NestedMapKeyBody(kt) == "message A { message B { map<" \o kt \o ", int32> m = 1; } }"

\* Message declarations with a ";" after the closing "}", top-level and
\* nested, each with the same text where a space stands for the ";".
SemicolonPairs ==
  {[with |-> "message M { optional int32 x = 1; }; message N { }",
    without |-> "message M { optional int32 x = 1; }  message N { }"],
   [with |-> "message M { message N { }; optional N n = 1; }",
    without |-> "message M { message N { }  optional N n = 1; }"],
   [with |-> "message M { message N { }; };",
    without |-> "message M { message N { }  } "]}

\* Qualified references whose first component names a message in more than
\* one enclosing scope: the inner chain is complete, the inner chain breaks
\* off after a prefix, the reference stands in a nested message, the name is
\* an enum in the inner scope, and the file has a package.
InnerWinsText ==
  "message A { message B { } } message O { message A { message B { } } optional A.B x = 1; }"

PrefixOnlyText ==
  "message A { message B { } } message O { message A { } optional A.B x = 1; }"

ScopeTexts ==
  {InnerWinsText, PrefixOnlyText,
   "message O { message I { message A { } optional A x = 1; } message A { } } message A { }",
   "message O { enum A { Z = 0; } message I { optional A x = 1; optional O.I y = 2; } } message A { }",
   "package p; message A { message B { } } message O { message A { } optional p.A.B x = 1; optional A.B y = 2; optional O.A z = 3; }"}

\* Every kind of node: groups in groups, an enum and a message in a group, a
\* oneof; an extension in a message and in the file, an enum, a service.
NestedGroupsText ==
  "message M { optional group G = 1 { optional group H = 2 { enum E { Z = 0; } } message N { oneof o { int32 a = 3; } } } }"

ServiceAndExtensionsText ==
  "message M { extend M { optional int32 e = 9; } } enum T { Y = 0; } service S { rpc R (M) returns (M); } extend M { optional M v = 9; }"

\* One field under every label and under none: of a primitive type, of a
\* message type, in a oneof, and a map field.
Labels == {"", "required ", "optional ", "repeated "}

LabelDecls ==
  {[pre |-> "", decl |-> "int32 x = 1;", post |-> "", map |-> FALSE],
   [pre |-> "", decl |-> "A x = 1;", post |-> "", map |-> FALSE],
   [pre |-> "oneof o { ", decl |-> "string x = 1;", post |-> " }", map |-> FALSE],
   [pre |-> "", decl |-> "map<string, int32> x = 1;", post |-> "", map |-> TRUE]}

LabelBody(lb, d) == "message A { " \o d.pre \o lb \o d.decl \o d.post \o " }"

\* Oneofs: two in one message with fields before, between and after them; one
\* opened inside another; a group in a oneof, with a oneof of its own, and a
\* message after the oneof; a map field in a oneof.
OneofsText ==
  "message A { int32 a = 1; oneof x { int32 b = 2; string c = 3; } int32 d = 4; oneof y { A e = 5; } optional int32 f = 6; }"

NestedOneofText == "message A { oneof x { int32 b = 2; oneof y { int32 c = 3; } } }"

GroupInOneofText ==
  "message A { oneof x { group G = 1 { oneof z { int32 q = 7; } } } message N { oneof w { int32 r = 2; } } }"

MapInOneofText == "message A { oneof x { map<string, int32> m = 1; int32 b = 2; } }"

\* The most import statements of a file of the text inputs.
MaxImportStmts == 3

\* The import statements tried: of "b" or "c", public or not.
ImportStmts == [path : {"b", "c"}, public : BOOLEAN]

ImportLists == UNION {[1..m -> ImportStmts] : m \in 0..MaxImportStmts}

ImportStmtText(st) ==
  "import " \o (IF st.public THEN "public " ELSE "") \o "\"" \o st.path \o "\";"

\* A file of the import statements stmts and one message.
ImportsBody(stmts) ==
  Join([i \in 1..Len(stmts) |-> ImportStmtText(stmts[i])] \o <<"message A { }">>, " ")

MaxHeadStmts == 3

\* The package, syntax and option statements tried: pkg is the text between
\* "package" and ";", value the text between the quotes of a syntax
\* statement.
HeadStmts ==
  [kind : {"package"}, pkg : {"p", "q.r", ""}, value : {""}]
    \cup [kind : {"syntax"}, pkg : {""}, value : {"proto2", "proto3", "proto1", ""}]
    \cup [kind : {"option"}, pkg : {""}, value : {""}]

HeadLists == UNION {[1..m -> HeadStmts] : m \in 0..MaxHeadStmts}

HeadStmtText(st) ==
  IF st.kind = "package" THEN "package " \o st.pkg \o ";"
  ELSE IF st.kind = "syntax" THEN "syntax = \"" \o st.value \o "\";"
  ELSE "option o = 1;"

\* A file of the statements stmts and one message.
HeadBody(stmts) ==
  Join([i \in 1..Len(stmts) |-> HeadStmtText(stmts[i])] \o <<"message H { }">>, " ")

\* Extensions statements that end, or are cut off or damaged, after the start
\* or after the end of a range.
RangeHeads ==
  {"extensions 1", "extensions 1 to 5", "extensions 1, 7", "extensions 1 to 5, 7 to max"}

RangeEndings == {"", "; }", " @", " @; }", " \"x", " \"\\z\"; }", ",", " to"}

RangeCutBody(h, e) == "message M { " \o h \o e

\* A message with a group, a map field whose values are messages, and a
\* field of a nested message type.
FrameText ==
  "message A { optional group G = 1 { optional int32 y = 2; } map<string, A> m = 3; message N { optional G g = 1; } optional N n = 4; }"

\* References that begin with a dot: to a name borne by a top-level and by
\* an inner message, to a message of a file with a package, and to a name
\* that only an inner message bears.
RootRefText == "message A { } message B { message A { } optional .A x = 1; }"

RootRefPackageText == "package p; message A { } message B { optional .p.A x = 1; }"

RootRefInnerOnlyText == "message B { message A { } optional .A x = 1; }"

\* Two extensions statements in one message and one in a nested message.
NestedRangesText ==
  "message M { extensions 1 to 5; message N { extensions 9 to max; } extensions 7; }"

TextBodies ==
  DamagedTexts \cup BaseTexts \cup SpecialTexts
    \cup {FieldBody(t) : t \in TagTokens}
    \cup {RangeEndBody(t) : t \in TagTokens}
    \cup {RangeStartBody(t) : t \in TagTokens}
    \cup {RangesBody(rs) : rs \in RangeLists}
    \cup {NestedRangesText}
    \cup QualTexts
    \cup MapTexts
    \cup {OneofsText, NestedOneofText, GroupInOneofText, MapInOneofText}
    \cup {LabelBody(lb, d) : lb \in Labels, d \in LabelDecls}
    \cup {NestedGroupsText, ServiceAndExtensionsText}
    \cup ScopeTexts
    \cup {pr.with : pr \in SemicolonPairs} \cup {pr.without : pr \in SemicolonPairs}
    \cup {ImportsBody(stmts) : stmts \in ImportLists}
    \cup {HeadBody(stmts) : stmts \in HeadLists}
    \cup {FrameText}
    \cup {RangeCutBody(h, e) : h \in RangeHeads, e \in RangeEndings}
    \cup {RootRefText, RootRefPackageText, RootRefInnerOnlyText}
    \cup {MapKeyBody(kt) : kt \in MapKeyNames}
    \cup {NestedMapKeyBody(kt) : kt \in MapKeyNames}

RootBodies == {"", "message A { }"}

\* Files of several packages: "a" refers to p.T and imports "b", "c" or both
\* in either order; "b" and "c" are of the package p, of another package or
\* of none, and declare T or not.
PackageTexts(name) ==
  IF name = "a"
  THEN {"package p; import \"b\"; message A { optional p.T x = 1; }",
        "import \"b\"; import \"c\"; message A { optional p.T x = 1; }",
        "package q; import \"c\"; import \"b\"; message A { optional p.T x = 1; }",
        "package p; message T { } message A { optional p.T x = 1; }",
        "package p; import \"b\"; message A { optional p.T x = 1 }"}
  ELSE {"package p; message T { }",
        "package p; message U { }",
        "message T { }",
        "package q; message T { }"}

\* What may lie at a path the run has not read yet, by the kind of input.
Entries(w, path, name) ==
  IF name = "" THEN {dirEntry}
  ELSE IF w = "graph" THEN {missingEntry} \cup {fileEntry(b) : b \in GraphBodies}
  ELSE IF w = "text" /\ name = "a" THEN {fileEntry(b) : b \in TextBodies}
  ELSE IF w = "text" THEN {missingEntry, fileEntry("message B { }")}
  ELSE IF w = "packages" THEN {missingEntry} \cup {fileEntry(b) : b \in PackageTexts(name)}
  ELSE {missingEntry}

\* ------------------------------------------------------------------------
\* The program: main calls ParseFiles and then Generate.
\* ------------------------------------------------------------------------

VARIABLES
  world,        \* the kind of input of the run: "graph", "roots" or "text"
  args,         \* the arguments of ParseFiles: [filenames, importPaths]
  disk,         \* the file system as far as the run has read it: path -> entry
  importPaths,  \* ParseFiles: importPaths
  filenames,    \* ParseFiles: filenames, the worklist
  index,        \* ParseFiles: index, filename -> index in fset.Files
  fset,         \* ParseFiles: fset.Files
  filename,     \* ParseFiles: filename of the current iteration
  k,            \* ParseFiles: position of the loop over importPaths (from 1)
  buf,          \* ParseFiles: buf
  p,            \* ParseFiles: the parser of the last file parsed
  pe,           \* ParseFiles: what p.readFile returned last
  ret,          \* what ParseFiles returned: [nil, fset, err]
  fds,          \* what Generate returned: [File, err]
  log,          \* history: the calls of ioutil.ReadFile, in order
  pc            \* where the program stands

vars ==
  <<world, args, disk, importPaths, filenames, index, fset, filename, k, buf,
    p, pe, ret, fds, log, pc>>

emptyMap == [x \in {} |-> 0]

noReturn == [nil |-> TRUE, fset |-> <<>>, err |-> nilErr]

noFds == [File |-> <<>>, err |-> nilErr]

\* The state before main calls ParseFiles.
InitWith(w, as, d) ==
  /\ world = w
  /\ args = as
  /\ disk = d
  /\ importPaths = <<>>
  /\ filenames = <<>>
  /\ index = emptyMap
  /\ fset = <<>>
  /\ filename = ""
  /\ k = 0
  /\ buf = ""
  /\ p = newParser("", "")
  /\ pe = nilErr
  /\ ret = noReturn
  /\ fds = noFds
  /\ log = <<>>
  /\ pc = "main"

\* Runs over import graphs: nothing is known of the disk, every file read is
\* missing or a list of imports.
InitGraph ==
  \E fs \in SeqsUpTo(Names, MaxRequested) \ {<<>>} :
    InitWith("graph", [filenames |-> fs, importPaths |-> <<".">>], emptyMap)

\* The paths of the runs over search roots.
RootPaths == {filepathJoin(r, "a") : r \in Roots}

\* Runs over search roots: one requested file, the disk known from the start.
InitRoots ==
  \E ps \in SeqsUpTo(Roots, MaxRoots) :
    \E d \in [RootPaths -> {missingEntry, dirEntry}
                             \cup {fileEntry(b) : b \in RootBodies}] :
      InitWith("roots", [filenames |-> <<"a">>, importPaths |-> ps], d)

\* Runs over file texts: one requested file with any of the texts.
InitText ==
  InitWith("text", [filenames |-> <<"a">>, importPaths |-> <<>>], emptyMap)

\* Runs over files of several packages: one requested file.
InitPackages ==
  InitWith("packages", [filenames |-> <<"a">>, importPaths |-> <<>>], emptyMap)

Init == InitGraph \/ InitRoots \/ InitText \/ InitPackages

\* alreadyParsed answering no for every filename.
neverParsed(idx, name) == FALSE

\* index[filename] exists (part of the loop head of ParseFiles)
alreadyParsed(idx, name) == name \in DOMAIN idx

\* enqueue that appends no import.
enqueueNothing(idx, imports, fs) == fs

RECURSIVE enqueue(_, _, _)
\* "enqueue unparsed imports": filenames after the loop over f.Imports from
\* import i on.
enqueue(idx, imports, fs) ==
  IF imports = <<>> THEN fs
  ELSE enqueue(idx, Tail(imports),
               IF Head(imports) \notin DOMAIN idx
               THEN Append(fs, Head(imports)) ELSE fs)

\* main calls ParseFiles: importPaths is forced to have an element.
ParseFilesEnter ==
  /\ pc = "main"
  /\ importPaths' = IF Len(args.importPaths) = 0 THEN <<".">> ELSE args.importPaths
  /\ filenames' = args.filenames
  /\ fset' = <<>>
  /\ index' = emptyMap
  /\ pc' = "loop"
  /\ UNCHANGED <<world, args, disk, filename, k, buf, p, pe, ret, fds, log>>

\* The head of one iteration of the worklist loop: take the first filename,
\* skip it if it is in index, else append its file to fset.
Dequeue ==
  /\ pc = "loop"
  /\ Len(filenames) > 0
  /\ filename' = Head(filenames)
  /\ filenames' = Tail(filenames)
  /\ IF alreadyParsed(index, Head(filenames))
     THEN UNCHANGED <<index, fset, k, buf, pc>>
     ELSE /\ index' = index @@ (Head(filenames) :> Len(fset))
          /\ fset' = Append(fset, newFile(Head(filenames)))
          /\ k' = 1
          /\ buf' = ""
          /\ pc' = "probe"
  /\ UNCHANGED <<world, args, disk, importPaths, p, pe, ret, fds, log>>

\* One iteration of the loop over importPaths: one call of ioutil.ReadFile.
Probe ==
  /\ pc = "probe"
  /\ k <= Len(importPaths)
  /\ LET path == filepathJoin(importPaths[k], filename)
     IN \E e \in (IF path \in DOMAIN disk THEN {disk[path]}
                  ELSE Entries(world, path, filename)) :
          /\ disk' = IF path \in DOMAIN disk THEN disk ELSE disk @@ (path :> e)
          /\ log' = Append(log, [filename |-> filename, path |-> path,
                                 root |-> k, res |-> e.kind])
          /\ IF e.kind = "missing"
             THEN /\ k' = k + 1
                  /\ UNCHANGED <<buf, ret, pc>>
             ELSE IF e.kind = "dir"
             THEN /\ ret' = [nil |-> TRUE, fset |-> <<>>, err |-> readError(path)]
                  /\ pc' = "returned"
                  /\ UNCHANGED <<buf, k>>
             ELSE /\ buf' = e.buf
                  /\ pc' = "parse"
                  /\ UNCHANGED <<ret, k>>
  /\ UNCHANGED <<world, args, importPaths, filenames, index, fset, filename,
                 p, pe, fds>>

\* The loop over importPaths ended with buf == nil.
NotFound ==
  /\ pc = "probe"
  /\ k > Len(importPaths)
  /\ ret' = [nil |-> TRUE, fset |-> <<>>,
             err |-> Errorf("file not found: " \o filename)]
  /\ pc' = "returned"
  /\ UNCHANGED <<world, args, disk, importPaths, filenames, index, fset,
                 filename, k, buf, p, pe, fds, log>>

\* The rest of the iteration: parse buf into the file, check that the input
\* was consumed, enqueue the imports that are not in index.
ParseFile ==
  /\ pc = "parse"
  /\ LET r == Call("readFile", <<newParser(filename, buf), fset[Len(fset)]>>)
         left == errorf(r.p, "input was not all consumed")
     IN /\ fset' = [fset EXCEPT ![Len(fset)] = r.f]
        /\ pe' = r.err
        /\ IF r.err # nilErr
           THEN /\ p' = r.p
                /\ ret' = [nil |-> TRUE, fset |-> <<>>, err |-> r.err]
                /\ pc' = "returned"
                /\ UNCHANGED filenames
           ELSE IF r.p.s # ""
           THEN /\ p' = left
                /\ ret' = [nil |-> TRUE, fset |-> <<>>, err |-> left.cur.err]
                /\ pc' = "returned"
                /\ UNCHANGED filenames
           ELSE /\ p' = r.p
                /\ filenames' = enqueue(index, r.f.Imports, filenames)
                /\ pc' = "loop"
                /\ UNCHANGED ret
  /\ UNCHANGED <<world, args, disk, importPaths, index, filename, k, buf, fds, log>>

\* The worklist is empty: resolveSymbols, and ParseFiles returns.
Resolve ==
  /\ pc = "loop"
  /\ Len(filenames) = 0
  /\ LET r == Call("resolveSymbols", <<fset>>)
     IN /\ fset' = r.fset
        /\ ret' = IF r.err # nilErr
                  THEN [nil |-> TRUE, fset |-> <<>>, err |-> r.err]
                  ELSE [nil |-> FALSE, fset |-> r.fset, err |-> nilErr]
  /\ pc' = "returned"
  /\ UNCHANGED <<world, args, disk, importPaths, filenames, index, filename,
                 k, buf, p, pe, fds, log>>

\* main: ParseFiles returned an error, fatalf.
MainFatal ==
  /\ pc = "returned"
  /\ ret.err # nilErr
  /\ pc' = "exited"
  /\ UNCHANGED <<world, args, disk, importPaths, filenames, index, fset,
                 filename, k, buf, p, pe, ret, fds, log>>

\* main: ParseFiles returned a FileSet, Generate is called on it; an error
\* ends in fatalf, a panic ends the program.
MainGenerate ==
  /\ pc = "returned"
  /\ ret.err = nilErr
  /\ fds' = Call("Generate", <<ret.fset>>)
  /\ pc' = IF fds'.err.kind = "panic" THEN "panicked"
           ELSE IF fds'.err # nilErr THEN "exited"
           ELSE "generated"
  /\ UNCHANGED <<world, args, disk, importPaths, filenames, index, fset,
                 filename, k, buf, p, pe, ret, log>>

Next ==
  \/ ParseFilesEnter
  \/ Dequeue
  \/ Probe
  \/ NotFound
  \/ ParseFile
  \/ Resolve
  \/ MainFatal
  \/ MainGenerate

Spec == Init /\ [][Next]_vars

SpecGraph == InitGraph /\ [][Next]_vars

SpecRoots == InitRoots /\ [][Next]_vars

SpecText == InitText /\ [][Next]_vars

SpecPackages == InitPackages /\ [][Next]_vars

\* ------------------------------------------------------------------------
\* The lexer on its own: a caller that calls p.next() and p.back() in any
\* order the parser may, back only between two calls of next.
\* ------------------------------------------------------------------------

\* The most calls of one run of the lexer.
MaxLexOps == 9

LexTexts ==
  {"",
   "a = 1;",
   "  \n ",
   "message A {\n  // c\n  optional string s = \"x\";\n}\n",
   " x\n'q' @ y",
   "x \"unclosed"}

InitLex ==
  /\ \E b \in LexTexts :
       /\ buf = b
       /\ p = newParser("a", b)
  /\ world = "lex"
  /\ args = [filenames |-> <<>>, importPaths |-> <<>>]
  /\ disk = emptyMap
  /\ importPaths = <<>>
  /\ filenames = <<>>
  /\ index = emptyMap
  /\ fset = <<>>
  /\ filename = "a"
  /\ k = 0
  /\ pe = nilErr
  /\ ret = noReturn
  /\ fds = noFds
  /\ log = <<>>
  /\ pc = "lex"

\* tok := p.next(); log keeps the call and the parser after it.
LexNext ==
  /\ pc = "lex"
  /\ Len(log) < MaxLexOps
  /\ p' = Call("next", <<p>>)
  /\ log' = Append(log, [op |-> "next", p |-> p'])
  /\ UNCHANGED <<world, args, disk, importPaths, filenames, index, fset,
                 filename, k, buf, pe, ret, fds, pc>>

\* p.back(), "may only be done between calls to p.next()".
LexBack ==
  /\ pc = "lex"
  /\ Len(log) < MaxLexOps
  /\ log # <<>>
  /\ log[Len(log)].op = "next"
  /\ p' = Call("back", <<p>>)
  /\ log' = Append(log, [op |-> "back", p |-> p'])
  /\ UNCHANGED <<world, args, disk, importPaths, filenames, index, fset,
                 filename, k, buf, pe, ret, fds, pc>>

NextLex == LexNext \/ LexBack

SpecLex == InitLex /\ [][NextLex]_vars

\* ------------------------------------------------------------------------
\* The comments of a file: a caller that parses one file with readFile and
\* asks ast.InlineComment for the comment of one of its nodes.
\* ------------------------------------------------------------------------

\* The most lines of a text made of the lines of LineKinds.
MaxLines == 3

\* The lines tried, each a whole statement, a comment or both: col is the
\* offset of the "//" of its comment in the line, -1 if it has none.
LineKinds ==
  {[text |-> "message M { }", col |-> -1],
   [text |-> "message M { } // c", col |-> 14],
   [text |-> "// c", col |-> 0],
   [text |-> "  //  d ", col |-> 2],
   [text |-> "", col |-> -1],
   [text |-> "option o = \"//\";", col |-> -1]}

\* A message whose fields and enum stand on lines of their own.
CommentedMessageLines ==
  <<[text |-> "message A { // a", col |-> 12],
    [text |-> "  optional int32 x = 1; // x", col |-> 24],
    [text |-> "", col |-> -1],
    [text |-> "  enum E { V = 1; } // e", col |-> 20],
    [text |-> "}", col |-> -1],
    [text |-> "// z", col |-> 0]>>

\* A statement cut off after its comment: readFile returns an error.
CutOffLines ==
  <<[text |-> "// c", col |-> 0],
    [text |-> "message M {", col |-> -1]>>

CommentLineLists ==
  SeqsUpTo(LineKinds, MaxLines) \cup {CommentedMessageLines, CutOffLines}

\* The text of the lines ls, a newline between two lines.
LinesBody(ls) == Join([i \in 1..Len(ls) |-> ls[i].text], "\n")

InitComments ==
  /\ \E ls \in CommentLineLists : buf = LinesBody(ls)
  /\ world = "comments"
  /\ args = [filenames |-> <<>>, importPaths |-> <<>>]
  /\ disk = emptyMap
  /\ importPaths = <<>>
  /\ filenames = <<>>
  /\ index = emptyMap
  /\ fset = <<newFile("a")>>
  /\ filename = "a"
  /\ k = 0
  /\ p = newParser("a", "")
  /\ pe = nilErr
  /\ ret = noReturn
  /\ fds = noFds
  /\ log = <<>>
  /\ pc = "parse"

\* p := newParser(filename, string(buf)); pe := p.readFile(f)
CommentsParse ==
  /\ world = "comments"
  /\ pc = "parse"
  /\ LET r == Call("readFile", <<newParser(filename, buf), fset[1]>>)
     IN /\ fset' = <<r.f>>
        /\ pe' = r.err
        /\ p' = r.p
        /\ pc' = IF r.err # nilErr THEN "returned" ELSE "nodes"
  /\ UNCHANGED <<world, args, disk, importPaths, filenames, index, filename,
                 k, buf, ret, fds, log>>

\* A node as InlineComment uses it: its Pos() and, for File(), its Up.
Node(kind, x) == [kind |-> kind, Position |-> x.Position, Up |-> x.Up]

EnumNodes(c) ==
  UNION {{Node("Enum", c.Enums[i])}
           \cup {Node("EnumValue", c.Enums[i].Values[j]) : j \in 1..Len(c.Enums[i].Values)}
         : i \in 1..Len(c.Enums)}

ExtensionNodes(c) ==
  UNION {{Node("Extension", c.Extensions[i])}
           \cup {Node("Field", c.Extensions[i].Fields[j]) : j \in 1..Len(c.Extensions[i].Fields)}
         : i \in 1..Len(c.Extensions)}

RECURSIVE MessageNodes(_)
\* The message m and the nodes in it, at every depth.
MessageNodes(m) ==
  {Node("Message", m)}
    \cup {Node("Field", m.Fields[i]) : i \in 1..Len(m.Fields)}
    \cup EnumNodes(m) \cup ExtensionNodes(m)
    \cup UNION {MessageNodes(m.Messages[i]) : i \in 1..Len(m.Messages)}

\* The values of the file f that implement ast.Node.
FileNodes(f) ==
  UNION {MessageNodes(f.Messages[i]) : i \in 1..Len(f.Messages)}
    \cup EnumNodes(f) \cup ExtensionNodes(f)
    \cup UNION {{Node("Service", f.Services[i])}
                  \cup {Node("Method", f.Services[i].Methods[j])
                        : j \in 1..Len(f.Services[i].Methods)}
                : i \in 1..Len(f.Services)}

RECURSIVE Search(_, _, _, _)
\* sort.Search(len(f.Comments), func(i) { return f.Comments[i].Start.Line >=
\* line }): the binary search between the zero-based indexes i and j.
Search(cs, line, i, j) ==
  IF i < j
  THEN LET h == (i + j) \div 2
       IN IF ~(cs[h + 1].Start.Line >= line)
          THEN Search(cs, line, h + 1, j)
          ELSE Search(cs, line, i, h)
  ELSE i

nilComment == [Start |-> noPosition, End |-> noPosition, Text |-> <<>>]

\* ast.InlineComment(n): the comment returned (nil says it is the nil
\* *Comment), or panic when the sanity check has called log.Panicf.
InlineComment(fs, n) ==
  LET f == FileOf(fs, n.Up)
      ci == Search(f.Comments, n.Position.Line, 0, Len(f.Comments))
      c == f.Comments[ci + 1]
  IN IF ci >= Len(f.Comments) \/ c.Start.Line # n.Position.Line
     THEN [nil |-> TRUE, panic |-> FALSE, c |-> nilComment]
     ELSE IF c.Start # c.End \/ Len(c.Text) # 1
          THEN [nil |-> TRUE, panic |-> TRUE, c |-> c]
          ELSE [nil |-> FALSE, panic |-> FALSE, c |-> c]

\* c := ast.InlineComment(n) for a node n of the file; log keeps the call.
InlineCommentCall ==
  /\ world = "comments"
  /\ pc = "nodes"
  /\ \E n \in FileNodes(fset[1]) :
       LET r == InlineComment(fset, n)
       IN /\ log' = Append(log, [op |-> "InlineComment", n |-> n, r |-> r])
          /\ pc' = IF r.panic THEN "panicked" ELSE "asked"
  /\ UNCHANGED <<world, args, disk, importPaths, filenames, index, fset,
                 filename, k, buf, p, pe, ret, fds>>

NextComments == CommentsParse \/ InlineCommentCall

SpecComments == InitComments /\ [][NextComments]_vars

\* ------------------------------------------------------------------------
\* Properties of the loader
\* ------------------------------------------------------------------------

\* ParseFiles has returned.
Returned == pc \in {"returned", "exited", "panicked", "generated"}

\* ParseFiles has returned a FileSet.
Succeeded == Returned /\ ret.err = nilErr

\* The file i of fs imports the file j of fs.
ImportsFile(fs, i, j) ==
  \E n \in 1..Len(fs[i].Imports) : fs[i].Imports[n] = fs[j].Name

\* The import relation among the files of fs has no cycle: the files can be
\* ranked so that every import has a smaller rank than its importer.
Acyclic(fs) ==
  \E rank \in [1..Len(fs) -> 1..Len(fs)] :
    \A i, j \in 1..Len(fs) : ImportsFile(fs, i, j) => rank[j] < rank[i]

\* C1: after ParseFiles succeeds on an acyclic import graph, every import of
\* every file of the returned sequence stands at a strictly smaller index
\* than the file.
C1_TopologicalOrder ==
  Succeeded /\ Acyclic(ret.fset) =>
    \A i \in 1..Len(ret.fset) :
      \A n \in 1..Len(ret.fset[i].Imports) :
        \E j \in 1..(i - 1) : ret.fset[j].Name = ret.fset[i].Imports[n]

\* C2: no filename occurs twice in the file sequence, and no filename is
\* read successfully (and so parsed) twice, however often it is requested
\* or imported.
C2_NoDuplicates ==
  /\ \A i, j \in 1..Len(fset) : fset[i].Name = fset[j].Name => i = j
  /\ \A i, j \in 1..Len(log) :
       log[i].res = "file" /\ log[j].res = "file"
         /\ log[i].filename = log[j].filename => i = j
  /\ Succeeded =>
       \A i, j \in 1..Len(ret.fset) :
         ret.fset[i].Name = ret.fset[j].Name => i = j

\* C2 happens: a filename requested twice, and a file imported by two
\* others, in a run that returned three files.
C2_Witness ==
  /\ Succeeded
  /\ Len(args.filenames) = 2 /\ args.filenames[1] = args.filenames[2]
  /\ Len(ret.fset) = 3
  /\ \E i, j, m \in 1..Len(ret.fset) :
       i # j /\ i # m /\ j # m
         /\ ImportsFile(ret.fset, i, m) /\ ImportsFile(ret.fset, j, m)

\* C3: when ParseFiles succeeds, every entry of every returned file's
\* Imports is the Name of a file of the returned FileSet.
C3_ImportClosure ==
  Succeeded =>
    \A i \in 1..Len(ret.fset) :
      \A n \in 1..Len(ret.fset[i].Imports) :
        \E j \in 1..Len(ret.fset) : ret.fset[j].Name = ret.fset[i].Imports[n]

\* C3 happens: a successful run over a chain of three files, only the first
\* of them requested.
C3_Witness ==
  /\ Succeeded
  /\ Len(args.filenames) = 1
  /\ Len(ret.fset) = 3
  /\ ImportsFile(ret.fset, 1, 2)
  /\ ImportsFile(ret.fset, 2, 3)

\* C4: when a file imports itself or the imports of the loaded files form a
\* cycle, ParseFiles returns an error and no FileSet.
C4_CyclesRejected ==
  Returned /\ ~Acyclic(fset) => ret.err # nilErr /\ ret.nil

\* ------------------------------------------------------------------------
\* Properties of the pipeline
\* ------------------------------------------------------------------------

\* C5: the pipeline halts at the first error with no partial result: when
\* the lexer has raised an error on the file parsed last, ParseFiles has
\* returned a nil FileSet with an error; an error of ParseFiles comes with a
\* nil FileSet and an error of Generate with a nil result.
C5_HaltsAtFirstError ==
  /\ p.lexErr # nilErr =>
       pc \in {"returned", "exited"} /\ ret.nil /\ ret.err # nilErr
  /\ ret.err # nilErr => ret.nil /\ ret.fset = <<>>
  /\ fds.err # nilErr => fds.File = <<>>

RECURSIVE MessageFields(_)
\* The fields of the message m and of the messages nested in it, at every
\* depth.
MessageFields(m) ==
  {m.Fields[i] : i \in 1..Len(m.Fields)}
    \cup UNION {MessageFields(m.Messages[i]) : i \in 1..Len(m.Messages)}

\* The fields of the messages of the file f.
FileFields(f) == UNION {MessageFields(f.Messages[i]) : i \in 1..Len(f.Messages)}

\* C6: when resolveSymbols has succeeded (ParseFiles returned the FileSet),
\* every field of every message, at every nesting depth, has its Type set:
\* a primitive type, or a Message or an Enum.
C6_EveryFieldTyped ==
  Succeeded =>
    \A i \in 1..Len(ret.fset) :
      \A f \in FileFields(ret.fset[i]) :
        f.Type.kind \in {"FieldType", "Message", "Enum"}

\* C7: when the lexer has raised an error during the parse of a file,
\* readFile has returned an error for the file and the lexer reports done.
C7_NoSilentLexError ==
  p.lexErr # nilErr => pe # nilErr /\ p.done

\* The least element of a set of numbers.
Min(S) == CHOOSE x \in S : \A y \in S : x <= y

\* C8: the first root in the configured order under which the file is an
\* existing non-directory file is used, roots where the path is missing or
\* a directory being skipped; with no such root ParseFiles fails with a
\* file-not-found error naming the filename; an empty root list stands for
\* the single root ".".
C8_FirstUsableRoot ==
  world = "roots" /\ Returned =>
    LET hits == {i \in 1..Len(importPaths) :
                   disk[filepathJoin(importPaths[i], "a")].kind = "file"}
    IN /\ Len(args.importPaths) = 0 => importPaths = <<".">>
       /\ IF hits = {}
          THEN ret.err = Errorf("file not found: a")
          ELSE /\ ret.err = nilErr
               /\ buf = disk[filepathJoin(importPaths[Min(hits)], "a")].buf

\* ------------------------------------------------------------------------
\* Properties of tags and extension ranges
\* ------------------------------------------------------------------------

\* The file "a" of a run over file texts had the text b and has been parsed.
ParsedText(b) == world = "text" /\ filename = "a" /\ buf = b /\ pc # "parse"

\* t without a leading sign.
StripSign(t) == IF t # "" /\ Byte(t, 0) \in {"+", "-"} THEN Drop(t, 1) ELSE t

RECURSIVE StripZeros(_)
\* s without its leading zeros, the last digit kept.
StripZeros(s) ==
  IF Len(s) > 1 /\ Byte(s, 0) = "0" THEN StripZeros(Drop(s, 1)) ELSE s

\* The token t is a decimal integer: an optional sign and one or more digits.
IsDecimalInteger(t) ==
  /\ StripSign(t) # ""
  /\ \A i \in 0..(Len(StripSign(t)) - 1) :
       \E d \in 0..9 : Byte(StripSign(t), i) = Byte("0123456789", d)

RECURSIVE DecimalValue(_)
\* The number the digits s denote.
DecimalValue(s) ==
  IF s = "" THEN 0
  ELSE 10 * DecimalValue(Take(s, Len(s) - 1))
         + (CHOOSE d \in 0..9 : Byte(s, Len(s) - 1) = Byte("0123456789", d))

\* The integer the decimal token t denotes; 2^30 stands for every magnitude
\* of more than nine digits.
TokenValue(t) ==
  IF Len(StripZeros(StripSign(t))) > 9
  THEN (IF Byte(t, 0) = "-" THEN -(2^30) ELSE 2^30)
  ELSE IF Byte(t, 0) = "-" THEN -DecimalValue(StripZeros(StripSign(t)))
       ELSE DecimalValue(StripZeros(StripSign(t)))

\* n is a tag: 1 <= n < 2^29 and n outside [19000, 19999].
InTagRange(n) == 1 <= n /\ n < 2^29 /\ ~(19000 <= n /\ n <= 19999)

\* The token t is to be accepted as a tag, maxAllowed telling whether the
\* position allows the word max.
AcceptableTag(t, maxAllowed) ==
  \/ maxAllowed /\ t = "max"
  \/ IsDecimalInteger(t) /\ InTagRange(TokenValue(t))

\* The tag an accepted token yields.
TagOf(t) == IF t = "max" THEN 2^29 - 1 ELSE TokenValue(t)

RECURSIVE MessageTags(_)
\* The tags of the fields of the message m, of its extensions and of the
\* messages nested in it.
MessageTags(m) ==
  {m.Fields[i].Tag : i \in 1..Len(m.Fields)}
    \cup UNION {{m.Extensions[i].Fields[j].Tag :
                   j \in 1..Len(m.Extensions[i].Fields)} :
                i \in 1..Len(m.Extensions)}
    \cup UNION {MessageTags(m.Messages[i]) : i \in 1..Len(m.Messages)}

\* The field tags of the file f.
FileTags(f) ==
  UNION {MessageTags(f.Messages[i]) : i \in 1..Len(f.Messages)}
    \cup UNION {{f.Extensions[i].Fields[j].Tag :
                   j \in 1..Len(f.Extensions[i].Fields)} :
                i \in 1..Len(f.Extensions)}

RECURSIVE DescriptorNumbers(_)
\* The field numbers of the DescriptorProto dp and of its nested types.
DescriptorNumbers(dp) ==
  {dp.Field[i].Number : i \in 1..Len(dp.Field)}
    \cup {dp.Extension[i].Number : i \in 1..Len(dp.Extension)}
    \cup UNION {DescriptorNumbers(dp.NestedType[i]) : i \in 1..Len(dp.NestedType)}

\* The field numbers of the FileDescriptorProto fdp.
FileNumbers(fdp) ==
  UNION {DescriptorNumbers(fdp.MessageType[i]) : i \in 1..Len(fdp.MessageType)}
    \cup {fdp.Extension[i].Number : i \in 1..Len(fdp.Extension)}

\* C9: readTagNumber accepts a token iff it is a decimal integer n with
\* 1 <= n < 2^29 outside [19000, 19999], or the word max at the end of an
\* extension range, which yields 2^29 - 1; every field tag of a parsed AST
\* and every field number the generator emits is in that range.
C9_TagValidation ==
  /\ \A t \in TagTokens :
       /\ ParsedText(FieldBody(t)) =>
            /\ pe = nilErr <=> AcceptableTag(t, FALSE)
            /\ pe = nilErr => fset[1].Messages[1].Fields[1].Tag = TagOf(t)
       /\ ParsedText(RangeStartBody(t)) =>
            /\ pe = nilErr <=> AcceptableTag(t, FALSE)
            /\ pe = nilErr =>
                 fset[1].Messages[1].ExtensionRanges = <<<<TagOf(t), TagOf(t)>>>>
       /\ ParsedText(RangeEndBody(t)) =>
            /\ pe = nilErr <=> AcceptableTag(t, TRUE)
            /\ pe = nilErr =>
                 fset[1].Messages[1].ExtensionRanges = <<<<1, TagOf(t)>>>>
  /\ Succeeded =>
       \A i \in 1..Len(ret.fset) : \A n \in FileTags(ret.fset[i]) : InTagRange(n)
  /\ pc = "generated" =>
       \A i \in 1..Len(fds.File) : \A n \in FileNumbers(fds.File[i]) : InTagRange(n)

\* C9 happens: the greatest tag has been parsed as a field's tag and emitted
\* as the field's number.
C9_Witness ==
  /\ pc = "generated"
  /\ buf = FieldBody("536870911")
  /\ fds.File[1].MessageType[1].Field[1].Number = 2^29 - 1

\* The inclusive pair the declared range r stands for.
RangeValue(r) ==
  <<DecimalValue(r.from),
    IF r.to = "" THEN DecimalValue(r.from)
    ELSE IF r.to = "max" THEN 2^29 - 1
    ELSE DecimalValue(r.to)>>

\* No declared range of rs has a start above its end.
Ordered(rs) == \A i \in 1..Len(rs) : RangeValue(rs[i])[1] <= RangeValue(rs[i])[2]

\* The declared range the text s of one range denotes, "?" where s is
\* not of that form.
DeclaredRange(s) ==
  IF Len(s) = 1 THEN [from |-> s, to |-> ""]
  ELSE IF Len(s) > 5 /\ Slice(s, 1, 5) = " to "
       THEN [from |-> Take(s, 1), to |-> Drop(s, 5)]
       ELSE [from |-> "?", to |-> "?"]

RECURSIVE DeclaredFrom(_, _)
\* The declared ranges of the text s of a list of ranges, read from index i.
DeclaredFrom(s, i) ==
  LET e == CHOOSE j \in i..Len(s) :
             /\ j = Len(s) \/ Byte(s, j) = ","
             /\ \A n \in i..(j - 1) : Byte(s, n) # ","
  IN IF e = Len(s) THEN <<DeclaredRange(Slice(s, i, e))>>
     ELSE <<DeclaredRange(Slice(s, i, e))>> \o DeclaredFrom(s, e + 2)

\* The text b is one message with one extensions statement.
IsRangesBody(b) ==
  /\ HasPrefix(b, "message M { extensions ")
  /\ HasSuffix(b, "; }")
  /\ Len(b) > 26

\* The ranges the extensions statement of b declares.
DeclaredRanges(b) == DeclaredFrom(Slice(b, 23, Len(b) - 3), 0)

RECURSIVE RangesEmitted(_, _)
\* The descriptor dp has one range per pair stored in the message m, in the
\* same order, with the same start and the end one higher, and so have the
\* messages nested in m.
RangesEmitted(m, dp) ==
  /\ Len(dp.ExtensionRange) = Len(m.ExtensionRanges)
  /\ \A i \in 1..Len(m.ExtensionRanges) :
       /\ dp.ExtensionRange[i].Start = m.ExtensionRanges[i][1]
       /\ dp.ExtensionRange[i].End = m.ExtensionRanges[i][2] + 1
       /\ dp.ExtensionRange[i].Start < dp.ExtensionRange[i].End
  /\ Len(dp.NestedType) >= Len(m.Messages)
  /\ \A n \in 1..Len(m.Messages) : RangesEmitted(m.Messages[n], dp.NestedType[n])

\* C10: the parser stores one inclusive pair per declared range, in the
\* order of declaration (t as (t, t), a to b as (a, b), a to max as
\* (a, 2^29 - 1)), and rejects a range whose start exceeds its end; the
\* generator emits one range per stored pair, in the same order, with the
\* start unchanged and the end one higher, so that start < end.
C10_ExtensionRanges ==
  /\ world = "text" /\ filename = "a" /\ pc # "parse" /\ IsRangesBody(buf)
       /\ (\A i \in 1..Len(DeclaredRanges(buf)) : DeclaredRanges(buf)[i] \in RangeItems)
       => IF Ordered(DeclaredRanges(buf))
          THEN /\ pe = nilErr
               /\ fset[1].Messages[1].ExtensionRanges =
                    [i \in 1..Len(DeclaredRanges(buf)) |-> RangeValue(DeclaredRanges(buf)[i])]
          ELSE pe # nilErr
  /\ ParsedText(NestedRangesText) =>
       /\ pe = nilErr
       /\ fset[1].Messages[1].ExtensionRanges = <<<<1, 5>>, <<7, 7>>>>
       /\ fset[1].Messages[1].Messages[1].ExtensionRanges = <<<<9, 2^29 - 1>>>>
  /\ pc = "generated" =>
       \A i \in 1..Len(ret.fset) :
         /\ Len(fds.File[i].MessageType) = Len(ret.fset[i].Messages)
         /\ \A n \in 1..Len(ret.fset[i].Messages) :
              RangesEmitted(ret.fset[i].Messages[n], fds.File[i].MessageType[n])

\* C10 happens: two declared ranges, the second one up to max, have been
\* stored in order and emitted in the half-open form.
C10_Witness ==
  /\ pc = "generated"
  /\ IsRangesBody(buf)
  /\ DeclaredRanges(buf) = <<[from |-> "5", to |-> "9"], [from |-> "1", to |-> "max"]>>
  /\ ret.fset[1].Messages[1].ExtensionRanges = <<<<5, 9>>, <<1, 2^29 - 1>>>>
  /\ fds.File[1].MessageType[1].ExtensionRange =
       <<[Start |-> 5, End |-> 10], [Start |-> 1, End |-> 2^29]>>

\* ------------------------------------------------------------------------
\* Properties of the generated names
\* ------------------------------------------------------------------------

\* The name of the message or enum ref points to, read from the file down:
\* the package components, the names of the messages on the way, the name
\* of the node.
CanonicalName(fs, ref) ==
  LET f == FileOf(fs, ref)
      outer == [n \in 1..Len(ref.path) |-> MessageAt(f, SubSeq(ref.path, 1, n)).Name]
      own == IF ref.kind = "Enum"
             THEN <<MessageAt(f, ref.path).Enums[ref.n].Name>> ELSE <<>>
  IN "." \o Join(f.Package \o outer \o own, ".")

RECURSIVE ExtensionFields(_)
\* The fields of the extensions exts in order, each with its extension.
ExtensionFields(exts) ==
  IF exts = <<>> THEN <<>>
  ELSE [n \in 1..Len(exts[1].Fields) |-> [f |-> exts[1].Fields[n], x |-> exts[1]]]
         \o ExtensionFields(Tail(exts))

\* The descriptor fdp of the field f carries the canonical name of f's type.
FieldNamed(fs, f, fdp) ==
  f.KeyTypeName = "" /\ f.Type.kind \in {"Message", "Enum"} =>
    fdp.TypeName = <<CanonicalName(fs, f.Type)>>

\* The descriptors fdps of the fields of the extensions exts carry the
\* canonical names of the types and of the extendees.
ExtensionsNamed(fs, exts, fdps) ==
  /\ Len(fdps) = Len(ExtensionFields(exts))
  /\ \A n \in 1..Len(fdps) :
       /\ FieldNamed(fs, ExtensionFields(exts)[n].f, fdps[n])
       /\ fdps[n].Extendee = <<CanonicalName(fs, ExtensionFields(exts)[n].x.ExtendeeType)>>

RECURSIVE MessageNamed(_, _, _)
\* The descriptor dp of the message m, and those of the messages nested in
\* m, carry canonical names.
MessageNamed(fs, m, dp) ==
  /\ Len(dp.Field) = Len(m.Fields)
  /\ \A n \in 1..Len(m.Fields) : FieldNamed(fs, m.Fields[n], dp.Field[n])
  /\ ExtensionsNamed(fs, m.Extensions, dp.Extension)
  /\ Len(dp.NestedType) >= Len(m.Messages)
  /\ \A n \in 1..Len(m.Messages) : MessageNamed(fs, m.Messages[n], dp.NestedType[n])

\* The descriptor fdp of the file f carries canonical names.
FileNamed(fs, f, fdp) ==
  /\ Len(fdp.MessageType) = Len(f.Messages)
  /\ \A n \in 1..Len(f.Messages) : MessageNamed(fs, f.Messages[n], fdp.MessageType[n])
  /\ ExtensionsNamed(fs, f.Extensions, fdp.Extension)
  /\ Len(fdp.Service) = Len(f.Services)
  /\ \A n \in 1..Len(f.Services) :
       /\ Len(fdp.Service[n].Method) = Len(f.Services[n].Methods)
       /\ \A j \in 1..Len(f.Services[n].Methods) :
            /\ fdp.Service[n].Method[j].InputType =
                 CanonicalName(fs, f.Services[n].Methods[j].InType)
            /\ fdp.Service[n].Method[j].OutputType =
                 CanonicalName(fs, f.Services[n].Methods[j].OutType)

\* The type names and extendees of the field descriptors fdps.
FieldNames(fdps) ==
  UNION {{fdps[n].TypeName[j] : j \in 1..Len(fdps[n].TypeName)}
           \cup {fdps[n].Extendee[j] : j \in 1..Len(fdps[n].Extendee)}
         : n \in 1..Len(fdps)}

RECURSIVE DescriptorNames(_)
\* The type names and extendees of the descriptor dp and of its nested types.
DescriptorNames(dp) ==
  FieldNames(dp.Field) \cup FieldNames(dp.Extension)
    \cup UNION {DescriptorNames(dp.NestedType[n]) : n \in 1..Len(dp.NestedType)}

\* Every type_name, extendee, input_type and output_type of the file
\* descriptor fdp.
FileNames(fdp) ==
  UNION {DescriptorNames(fdp.MessageType[n]) : n \in 1..Len(fdp.MessageType)}
    \cup FieldNames(fdp.Extension)
    \cup UNION {UNION {{fdp.Service[n].Method[j].InputType,
                        fdp.Service[n].Method[j].OutputType}
                       : j \in 1..Len(fdp.Service[n].Method)}
                : n \in 1..Len(fdp.Service)}

\* s begins with a single ".".
SingleDot(s) == Len(s) > 1 /\ Byte(s, 0) = "." /\ Byte(s, 1) # "."

\* The first sentence of C11: every emitted name of a message or enum is "."
\* and the package components, the enclosing messages' names and the node's
\* own name joined with ".".
CanonicalNamesEmitted ==
  pc = "generated" =>
    \A i \in 1..Len(ret.fset) : FileNamed(ret.fset, ret.fset[i], fds.File[i])

\* C11: the emitted name of every message or enum node is "." followed by
\* the "."-joined package components, enclosing message names and own name,
\* and every emitted type_name, input_type, output_type and extendee begins
\* with a single ".".
C11_QualifiedNames ==
  /\ CanonicalNamesEmitted
  /\ pc = "generated" =>
       \A i \in 1..Len(fds.File) : \A s \in FileNames(fds.File[i]) : SingleDot(s)

\* ------------------------------------------------------------------------
\* Properties of map fields
\* ------------------------------------------------------------------------

RECURSIVE CamelOf(_, _)
\* The name s without its underscores, a lower-case letter that stands first
\* (up = TRUE) or after an underscore being upper-cased.
CamelOf(s, up) ==
  IF s = "" THEN ""
  ELSE IF Byte(s, 0) = "_" THEN CamelOf(Drop(s, 1), TRUE)
  ELSE (IF up /\ \E n \in 0..25 : Byte(s, 0) = Byte("abcdefghijklmnopqrstuvwxyz", n)
        THEN Byte("ABCDEFGHIJKLMNOPQRSTUVWXYZ",
                  CHOOSE n \in 0..25 : Byte(s, 0) = Byte("abcdefghijklmnopqrstuvwxyz", n))
        ELSE Byte(s, 0))
         \o CamelOf(Drop(s, 1), FALSE)

RECURSIVE MapFieldIndexes(_, _)
\* The indexes from i on of the map fields among fields, in order.
MapFieldIndexes(fields, i) ==
  IF i > Len(fields) THEN <<>>
  ELSE (IF fields[i].KeyTypeName # "" THEN <<i>> ELSE <<>>)
         \o MapFieldIndexes(fields, i + 1)

\* The descriptor e is the entry synthesized for the map field f, and fdp is
\* the descriptor of f in a message named by parts.
EntryEmitted(parts, f, fdp, e) ==
  /\ e.Name = CamelOf(f.Name, TRUE) \o "Entry"
  /\ e.MapEntry
  /\ Len(e.Field) = 2
  /\ e.Field[1].Name = "key" /\ e.Field[1].Number = 1
  /\ e.Field[1].Label = "LABEL_OPTIONAL"
  /\ e.Field[2].Name = "value" /\ e.Field[2].Number = 2
  /\ e.Field[2].Label = "LABEL_OPTIONAL"
  /\ fdp.Name = f.Name
  /\ fdp.Label = "LABEL_REPEATED"
  /\ fdp.Type = "TYPE_MESSAGE"
  /\ fdp.TypeName = <<"." \o Join(Append(parts, e.Name), ".")>>

RECURSIVE MapsEmitted(_, _, _)
\* The descriptor dp of the message m, which parts names, nests the
\* descriptors of the messages declared in m, in order, and then one entry
\* per map field, in the order of the fields; so do the declared messages.
MapsEmitted(parts, m, dp) ==
  LET maps == MapFieldIndexes(m.Fields, 1)
  IN /\ Len(dp.Field) = Len(m.Fields)
     /\ Len(dp.NestedType) = Len(m.Messages) + Len(maps)
     /\ \A n \in 1..Len(m.Messages) :
          /\ dp.NestedType[n].Name = m.Messages[n].Name
          /\ ~dp.NestedType[n].MapEntry
          /\ MapsEmitted(Append(parts, m.Messages[n].Name), m.Messages[n],
                         dp.NestedType[n])
     /\ \A n \in 1..Len(maps) :
          EntryEmitted(parts, m.Fields[maps[n]], dp.Field[maps[n]],
                       dp.NestedType[Len(m.Messages) + n])

\* C12: for a message with map fields, nested_type is the declared nested
\* messages in order followed by one synthesized message per map field in
\* field order, named CamelCase(field name) + "Entry", with the optional
\* fields key = 1 and value = 2 and map_entry set; the map field is
\* repeated, of TYPE_MESSAGE, and its type_name is the qualified name of
\* its entry inside the enclosing message.
C12_MapEntries ==
  pc = "generated" =>
    \A i \in 1..Len(ret.fset) :
      /\ Len(fds.File[i].MessageType) = Len(ret.fset[i].Messages)
      /\ \A n \in 1..Len(ret.fset[i].Messages) :
           MapsEmitted(Append(ret.fset[i].Package, ret.fset[i].Messages[n].Name),
                       ret.fset[i].Messages[n], fds.File[i].MessageType[n])

\* C12 happens: a message with a nested message declared between two map
\* fields and one declared after them has been generated, the entries
\* standing behind the declared messages.
C12_Witness ==
  /\ pc = "generated"
  /\ Len(ret.fset[1].Messages) = 1
  /\ MapFieldIndexes(ret.fset[1].Messages[1].Fields, 1) = <<1, 2>>
  /\ Len(ret.fset[1].Messages[1].Messages) = 2
  /\ [n \in 1..4 |-> fds.File[1].MessageType[1].NestedType[n].Name]
       = <<"N", "Q", "MXEntry", "NEntry">>
  /\ fds.File[1].MessageType[1].Field[1].TypeName = <<".p.A.MXEntry">>
  /\ fds.File[1].MessageType[1].NestedType[2].NestedType[1].Name = "ZEntry"

\* The type names a map key may have.
MapKeyTypeNames ==
  {"int32", "int64", "uint32", "uint64", "sint32", "sint64", "fixed32",
   "fixed64", "sfixed32", "sfixed64", "bool", "string"}

\* ParseFiles has returned from a run over the text b.
ReturnedText(b) == ParsedText(b) /\ Returned

\* The outcome of ParseFiles for a map field with the key type kt.
MapKeyOutcome(kt) ==
  IF kt \in MapKeyTypeNames THEN ret.err = nilErr
  ELSE /\ ret.nil
       /\ ret.err.kind = "error"
       /\ HasSuffix(ret.err.message, "invalid map key type \"" \o kt \o "\"")

\* C13: resolveSymbols fails with an invalid-map-key-type error whenever a
\* map field of a top-level or nested message has a key type name outside
\* the twelve allowed ones; when resolution succeeds, every map field's
\* KeyType is the primitive type its KeyTypeName names.
C13_MapKeyValidation ==
  /\ \A kt \in MapKeyNames :
       /\ ReturnedText(MapKeyBody(kt)) => MapKeyOutcome(kt)
       /\ ReturnedText(NestedMapKeyBody(kt)) => MapKeyOutcome(kt)
  /\ Succeeded =>
       \A i \in 1..Len(ret.fset) : \A f \in FileFields(ret.fset[i]) :
         f.KeyTypeName # "" =>
           /\ f.KeyTypeName \in MapKeyTypeNames
           /\ f.KeyType = [kind |-> "FieldType", file |-> f.KeyTypeName,
                           path |-> <<>>, n |-> 0]

\* The part of C13 about top-level messages.
TopLevelMapKeysValidated ==
  /\ \A kt \in MapKeyNames : ReturnedText(MapKeyBody(kt)) => MapKeyOutcome(kt)
  /\ Succeeded =>
       \A i \in 1..Len(ret.fset) : \A n \in 1..Len(ret.fset[i].Messages) :
         \A j \in 1..Len(ret.fset[i].Messages[n].Fields) :
           LET f == ret.fset[i].Messages[n].Fields[j]
           IN f.KeyTypeName # "" =>
                /\ f.KeyTypeName \in MapKeyTypeNames
                /\ f.KeyType = [kind |-> "FieldType", file |-> f.KeyTypeName,
                                path |-> <<>>, n |-> 0]

\* ------------------------------------------------------------------------
\* Properties of the resolver
\* ------------------------------------------------------------------------

RECURSIVE MessageExtensions(_)
\* The extensions declared in the message m and in the messages nested in it.
MessageExtensions(m) ==
  {m.Extensions[i] : i \in 1..Len(m.Extensions)}
    \cup UNION {MessageExtensions(m.Messages[i]) : i \in 1..Len(m.Messages)}

\* The extensions declared in the file f, at every depth.
FileExtensions(f) ==
  {f.Extensions[i] : i \in 1..Len(f.Extensions)}
    \cup UNION {MessageExtensions(f.Messages[i]) : i \in 1..Len(f.Messages)}

\* The methods of the services of the file f.
FileMethods(f) ==
  UNION {{f.Services[i].Methods[j] : j \in 1..Len(f.Services[i].Methods)}
         : i \in 1..Len(f.Services)}

\* C14: after resolveSymbols has succeeded, every method has InType and
\* OutType set to a Message, every extension has ExtendeeType set and its
\* fields have their Type set, and Generate neither fails nor panics on the
\* FileSet.
C14_MethodsAndExtensionsResolved ==
  /\ Succeeded =>
       \A i \in 1..Len(ret.fset) :
         /\ \A m \in FileMethods(ret.fset[i]) :
              m.InType.kind = "Message" /\ m.OutType.kind = "Message"
         /\ \A x \in FileExtensions(ret.fset[i]) :
              /\ x.ExtendeeType.kind = "Message"
              /\ \A j \in 1..Len(x.Fields) :
                   x.Fields[j].Type.kind \in {"FieldType", "Message", "Enum"}
  /\ pc # "panicked"
  /\ fds.err = nilErr

\* Generate has panicked on a FileSet that ParseFiles returned.
GeneratePanics == pc = "panicked"

\* A service with a method or an extension with a field has been generated.
MethodOrExtensionGenerated ==
  /\ pc = "generated"
  /\ \E i \in 1..Len(ret.fset) :
       \/ FileMethods(ret.fset[i]) # {}
       \/ \E x \in FileExtensions(ret.fset[i]) : x.Fields # <<>>

\* The reference to the top-level message at index i of the file "a".
TopLevelMessage(i) == [kind |-> "Message", file |-> "a", path |-> <<i>>, n |-> 0]

\* C15: a type reference that begins with "." is looked up from the FileSet
\* root only: it resolves to the node its remaining components name from
\* the root when there is one, and inner scopes are not tried.
C15_LeadingDotFromRoot ==
  /\ ReturnedText(RootRefText) =>
       /\ ret.err = nilErr
       /\ ret.fset[1].Messages[2].Fields[1].Type = TopLevelMessage(1)
  /\ ReturnedText(RootRefPackageText) =>
       /\ ret.err = nilErr
       /\ ret.fset[1].Messages[2].Fields[1].Type = TopLevelMessage(1)
  /\ ReturnedText(RootRefInnerOnlyText) => ret.err # nilErr

\* No reference that begins with "." resolves to an inner scope's node.
InnerScopesNotTried == ReturnedText(RootRefInnerOnlyText) => ret.err # nilErr

\* ------------------------------------------------------------------------
\* Properties of the emitted dependencies
\* ------------------------------------------------------------------------

\* The paths of the import statements stmts, in declaration order.
DeclaredPaths(stmts) == [i \in 1..Len(stmts) |-> stmts[i].path]

\* The zero-based positions of the public ones among stmts, ascending.
PublicPositions(stmts) ==
  LET isPublic(j) == stmts[j + 1].public
  IN SelectSeq([i \in 1..Len(stmts) |-> i - 1], isPublic)

\* The requested file "a" was read with the text b.
ReadText(b) ==
  /\ world = "text"
  /\ "a" \in DOMAIN disk
  /\ disk["a"].kind = "file"
  /\ disk["a"].buf = b

\* The descriptors emitted for the file "a".
EmittedForA == {i \in 1..Len(fds.File) : fds.File[i].Name = <<"a">>}

\* C16: the emitted dependency list is the imported paths in declaration
\* order, and public_dependency is the ascending list of the zero-based
\* positions in dependency of the imports declared public.
C16_Dependencies ==
  \A stmts \in ImportLists :
    ReadText(ImportsBody(stmts)) /\ pc = "generated" =>
      /\ EmittedForA # {}
      /\ \A i \in EmittedForA :
           /\ fds.File[i].Dependency = DeclaredPaths(stmts)
           /\ fds.File[i].PublicDependency = PublicPositions(stmts)

\* Three imports, the last two public, have been emitted.
C16_Witness ==
  /\ pc = "generated"
  /\ ReadText("import \"c\"; import public \"b\"; import public \"c\"; message A { }")
  /\ \E i \in EmittedForA :
       /\ fds.File[i].Dependency = <<"c", "b", "c">>
       /\ fds.File[i].PublicDependency = <<1, 2>>

\* ------------------------------------------------------------------------
\* Properties of the grammar
\* ------------------------------------------------------------------------

\* The file that readFile builds from the text b of the file "a".
FileParsedFrom(b) == Call("readFile", <<newParser("a", b), newFile("a")>>).f

\* readFile has returned from the text b of the file "a".
ReadFileReturned(b) == ParsedText(b) /\ pc \in {"loop", "returned"}

\* C17: a ";" after the closing "}" of a message declaration, top-level or
\* nested, is optional: the declaration parses, into the same AST as without
\* the ";".
C17_TrailingSemicolon ==
  \A pr \in SemicolonPairs :
    ReadFileReturned(pr.with) =>
      /\ pe = nilErr
      /\ fset[1] = FileParsedFrom(pr.without)

\* The same declarations without the ";" parse.
WithoutSemicolonParses ==
  \A pr \in SemicolonPairs : ReadFileReturned(pr.without) => pe = nilErr

\* ------------------------------------------------------------------------
\* Termination of the loader
\* ------------------------------------------------------------------------

\* A step of the program can be taken: it has not ended.  Every position
\* but the last ones has a step: "loop" dequeues or resolves, "probe" reads
\* or gives up, "returned" generates or exits.
Running == pc \in {"main", "loop", "probe", "parse", "returned"}

\* WF_vars(Next) with ENABLED <<Next>>_vars written out as Running: the
\* program is sequential, a step that can be taken is taken.
Progress == []<>(~Running) \/ []<><<Next>>_vars

SpecGraphFair == InitGraph /\ [][Next]_vars /\ Progress

\* The names a file of the import-graph inputs imports, read off its text.
ImportsOfBody(b) ==
  LET seq == CHOOSE s \in SeqsUpTo(Names, MaxImports) : ImportBody(s) = b
  IN {seq[i] : i \in 1..Len(seq)}

\* The names that S reaches in one step of import, over the files the run
\* has found on the disk.
ImportedBy(S) ==
  UNION {ImportsOfBody(disk[n].buf) :
           n \in {m \in S : m \in DOMAIN disk /\ disk[m].kind = "file"}}

RECURSIVE ReachableFrom(_)
ReachableFrom(S) ==
  IF ImportedBy(S) \subseteq S THEN S ELSE ReachableFrom(S \cup ImportedBy(S))

\* The distinct filenames reachable from the requested ones.
ReachableNames ==
  ReachableFrom({args.filenames[i] : i \in 1..Len(args.filenames)})

\* The files read so far and the files handed to the parser so far.
FilesRead == {i \in 1..Len(log) : log[i].res = "file"}

FilesBounded ==
  /\ Len(fset) <= Cardinality(ReachableNames)
  /\ Cardinality(FilesRead) <= Cardinality(ReachableNames)

\* C18: the worklist loop of the loader terminates for every finite set of
\* files, import graphs with self-imports or cycles included, and the files
\* read and parsed never outnumber the distinct filenames reachable from the
\* requested ones.
C18_LoaderTerminates == []FilesBounded /\ <>Returned

\* C18 happens: ParseFiles returned from a run over a file that imports
\* itself and a second file, which imports the first.
C18_Witness ==
  /\ Succeeded
  /\ args.filenames = <<"a">>
  /\ Len(ret.fset) = 2
  /\ ImportsFile(ret.fset, 1, 1)
  /\ ImportsFile(ret.fset, 1, 2)
  /\ ImportsFile(ret.fset, 2, 1)
  /\ Cardinality(ReachableNames) = 2

\* ------------------------------------------------------------------------
\* Properties of the lexer
\* ------------------------------------------------------------------------

\* The call i of the run is a next that returned a token without an error,
\* followed by one back and one next.
PushedBack(i) ==
  /\ i + 2 <= Len(log)
  /\ log[i].op = "next"
  /\ log[i].p.cur.err = nilErr
  /\ log[i + 1].op = "back"
  /\ log[i + 2].op = "next"

\* Only whitespace and comments are left of the input of the parser q.
NothingLeft(q) == Call("skipWhitespaceAndComments", <<q>>).s = ""

\* C19: after next() returned a token T without an error and back() was
\* called once, the following next() returns T again (same value, line and
\* offset) and consumes no input, and the next() after that returns the
\* token that follows T in the input, the one an uninterrupted next() reads,
\* or EOF when nothing follows.
C19_PushBack ==
  \A i \in 1..Len(log) :
    PushedBack(i) =>
      /\ log[i + 2].p.cur = log[i].p.cur
      /\ log[i + 2].p.s = log[i].p.s
      /\ log[i + 2].p.offset = log[i].p.offset
      /\ log[i + 2].p.line = log[i].p.line
      /\ i + 3 <= Len(log) /\ log[i + 3].op = "next" =>
           /\ log[i + 3].p.cur = Call("next", <<log[i].p>>).cur
           /\ log[i + 3].p.s = Call("next", <<log[i].p>>).s
           /\ NothingLeft(log[i].p) => log[i + 3].p.cur.err = eof

\* C19 happens: in one run "=" was returned, pushed back and returned again,
\* and the call after that returned "1"; then the last token was pushed
\* back, returned again and followed by EOF.
C19_Witness ==
  /\ buf = "a = 1;"
  /\ Len(log) = 9
  /\ PushedBack(2)
  /\ log[2].p.cur.value = "=" /\ log[4].p.cur.value = "="
  /\ log[5].op = "next" /\ log[5].p.cur.value = "1" /\ log[5].p.cur.offset = 4
  /\ PushedBack(6)
  /\ log[6].p.cur.value = ";" /\ log[8].p.cur.value = ";"
  /\ log[9].op = "next" /\ log[9].p.cur.err = eof

\* ------------------------------------------------------------------------
\* Properties of the lookup
\* ------------------------------------------------------------------------

\* The immediate children named name of the node ref of the file set fs: the
\* messages and enums of a file or message; for the FileSet, the top-level
\* ones of the files without a package and the files whose package begins
\* with name.
ChildrenNamed(fs, ref, name) ==
  IF ref.kind \in {"File", "Message"}
  THEN LET c == Deref(fs, ref)
       IN {MessageRef(ref, i) : i \in {j \in 1..Len(c.Messages) : c.Messages[j].Name = name}}
            \cup {ChildRef("Enum", ref, i) : i \in {j \in 1..Len(c.Enums) : c.Enums[j].Name = name}}
  ELSE IF ref.kind = "FileSet"
  THEN UNION {IF fs[n].Package = <<>>
              THEN {MessageRef(FileRef(fs[n].Name), i) :
                      i \in {j \in 1..Len(fs[n].Messages) : fs[n].Messages[j].Name = name}}
                     \cup {ChildRef("Enum", FileRef(fs[n].Name), i) :
                             i \in {j \in 1..Len(fs[n].Enums) : fs[n].Enums[j].Name = name}}
              ELSE IF fs[n].Package[1] = name THEN {FileRef(fs[n].Name)} ELSE {}
              : n \in 1..Len(fs)}
  ELSE {}

RECURSIVE ChainsFrom(_, _, _)
\* The nodes reached from ref by matching every component of parts in turn
\* as an immediate child.
ChainsFrom(fs, ref, parts) ==
  IF parts = <<>> THEN {ref}
  ELSE UNION {ChainsFrom(fs, c, Tail(parts)) : c \in ChildrenNamed(fs, ref, parts[1])}

RECURSIVE FirstCompleteChain(_, _, _, _)
\* The complete chains of the first starting scope that has one, from the
\* message at path of the file outward to the file and to the FileSet.
FirstCompleteChain(fs, file, path, parts) ==
  LET here == ChainsFrom(fs, Ref(IF path = <<>> THEN "File" ELSE "Message", file, path, 0), parts)
  IN IF here # {} THEN here
     ELSE IF path = <<>> THEN ChainsFrom(fs, FileSetRef, parts)
     ELSE FirstCompleteChain(fs, file, SubSeq(path, 1, Len(path) - 1), parts)

\* A reference that is not the name of a primitive type and has no leading dot.
IsQualifiedLookup(name) == ~IsFieldTypeName(name) /\ ~HasPrefix(name, ".")

RECURSIVE LookupsAsClaimed(_, _, _, _)
\* Every field of the message m at path of the file, and of the messages
\* nested in it, holds the result of the first complete chain, or nothing
\* when no starting scope has one.
LookupsAsClaimed(fs, file, path, m) ==
  /\ \A i \in 1..Len(m.Fields) :
       IsQualifiedLookup(m.Fields[i].TypeName) =>
         LET found == FirstCompleteChain(fs, file, path, Split(m.Fields[i].TypeName, "."))
         IN IF found = {} THEN m.Fields[i].Type = nilRef
            ELSE m.Fields[i].Type \in found
  /\ \A i \in 1..Len(m.Messages) :
       LookupsAsClaimed(fs, file, Append(path, i), m.Messages[i])

\* C20: a qualified lookup tries the starting scopes from the innermost
\* enclosing scope outward to the FileSet and returns the result of the first
\* one from which every component matches in turn as an immediate child; a
\* scope where only a proper prefix matches is passed over, and an inner
\* complete match wins over an outer one.
C20_FirstCompleteChainWins ==
  Succeeded =>
    \A n \in 1..Len(ret.fset) :
      \A i \in 1..Len(ret.fset[n].Messages) :
        LookupsAsClaimed(ret.fset, ret.fset[n].Name, <<i>>, ret.fset[n].Messages[i])

\* C20 happens: A.B has a complete chain from O and from the file, and the
\* field holds O.A.B.
C20_Witness ==
  /\ Succeeded
  /\ ReadText(InnerWinsText)
  /\ ret.fset[1].Messages[2].Fields[1].Type = Ref("Message", "a", <<2, 1, 1>>, 0)

\* The chain from O breaks off after A, and the field holds the top-level A.B.
PrefixOnlyPassedOver ==
  /\ Succeeded
  /\ ReadText(PrefixOnlyText)
  /\ ret.fset[1].Messages[2].Fields[1].Type = Ref("Message", "a", <<1, 1>>, 0)

\* ------------------------------------------------------------------------
\* Properties of the lookup of packages
\* ------------------------------------------------------------------------

\* resolveSymbols has been called and ParseFiles has returned.
Resolved ==
  /\ Returned
  /\ ret.err = nilErr \/ (ret.err.kind = "error" /\ HasPrefix(ret.err.message, "("))

\* The files of fs of the package pkg that declare the message name at top
\* level.
DeclaresInPackage(fs, pkg, name) ==
  {n \in 1..Len(fs) :
     /\ fs[n].Package = <<pkg>>
     /\ \E i \in 1..Len(fs[n].Messages) : fs[n].Messages[i].Name = name}

\* C21: a lookup in the FileSet scope finds every file whose package begins
\* with the name, so the reference p.T resolves whenever T is declared at top
\* level in any file of the FileSet with the package p, whatever the order of
\* the files and whether or not files without a package precede them.
C21_PackageLookup ==
  world = "packages" /\ Resolved /\ DeclaresInPackage(fset, "p", "T") # {} =>
    /\ ret.err = nilErr
    /\ LET ty == ret.fset[1].Messages[Len(ret.fset[1].Messages)].Fields[1].Type
       IN /\ ty.kind = "Message"
          /\ Len(ty.path) = 1
          /\ FileOf(ret.fset, ty).Package = <<"p">>
          /\ Deref(ret.fset, ty).Name = "T"

\* The reference p.T resolves when the first file of the package p declares T.
FirstFileOfPackageFound ==
  /\ world = "packages"
  /\ Succeeded
  /\ Len(ret.fset) = 3
  /\ ret.fset[1].Messages[1].Fields[1].Type = Ref("Message", "b", <<1>>, 0)

\* ------------------------------------------------------------------------
\* Properties of the parent back-references
\* ------------------------------------------------------------------------

\* The most Up steps from a node of the inputs to its file.
MaxUpSteps == 8

\* A reference to the file named name, or to the message at path in it.
ScopeRef(name, path) ==
  [kind |-> IF path = <<>> THEN "File" ELSE "Message", file |-> name,
   path |-> path, n |-> 0]

\* The reference to the child number i, of the kind kind, of the file or
\* message at path.
NodeRef(kind, name, path, i) == [kind |-> kind, file |-> name, path |-> path, n |-> i]

RECURSIVE PathExists(_, _)
\* The file or message c has a message at path.
PathExists(c, path) ==
  \/ path = <<>>
  \/ /\ path[1] \in 1..Len(c.Messages)
     /\ PathExists(c.Messages[path[1]], Tail(path))

\* The reference ref points to a node of the file f.
RefExists(f, ref) ==
  /\ ref.file = f.Name
  /\ ref.kind \in {"File", "Message", "Enum", "Extension", "Service", "Oneof"}
  /\ PathExists(f, ref.path)
  /\ LET c == MessageAt(f, ref.path)
     IN /\ ref.kind = "File" => ref.path = <<>>
        /\ ref.kind = "Message" => ref.path # <<>>
        /\ ref.kind = "Enum" => ref.n \in 1..Len(c.Enums)
        /\ ref.kind = "Extension" => ref.n \in 1..Len(c.Extensions)
        /\ ref.kind = "Service" => ref.path = <<>> /\ ref.n \in 1..Len(c.Services)
        /\ ref.kind = "Oneof" => ref.path # <<>> /\ ref.n \in 1..Len(c.Oneofs)

\* The Up of the node of f that ref points to.
UpOf(f, ref) ==
  LET c == MessageAt(f, ref.path)
  IN IF ref.kind = "Message" THEN c.Up
     ELSE IF ref.kind = "Enum" THEN c.Enums[ref.n].Up
     ELSE IF ref.kind = "Extension" THEN c.Extensions[ref.n].Up
     ELSE IF ref.kind = "Service" THEN c.Services[ref.n].Up
     ELSE c.Oneofs[ref.n].Up

RECURSIVE UpReachesFile(_, _, _)
\* Following Up from the reference up ends at the file f within steps steps.
UpReachesFile(f, up, steps) ==
  /\ RefExists(f, up)
  /\ \/ up.kind = "File"
     \/ /\ steps > 0
        /\ UpReachesFile(f, UpOf(f, up), steps - 1)

\* The node x, child of the node at container in the file f: its Up is its
\* container and leads to the file.
UpIs(f, x, container) ==
  /\ x.Up = container
  /\ UpReachesFile(f, x.Up, MaxUpSteps)

\* The enums and the extensions held by the file or message c at path.
EnumsUp(f, c, path) ==
  \A i \in 1..Len(c.Enums) :
    /\ UpIs(f, c.Enums[i], ScopeRef(f.Name, path))
    /\ \A j \in 1..Len(c.Enums[i].Values) :
         UpIs(f, c.Enums[i].Values[j], NodeRef("Enum", f.Name, path, i))

ExtensionsUp(f, c, path) ==
  \A i \in 1..Len(c.Extensions) :
    /\ UpIs(f, c.Extensions[i], ScopeRef(f.Name, path))
    /\ \A j \in 1..Len(c.Extensions[i].Fields) :
         UpIs(f, c.Extensions[i].Fields[j], NodeRef("Extension", f.Name, path, i))

RECURSIVE MessageUp(_, _, _)
\* The message m at path of the file f, and everything below it.
MessageUp(f, m, path) ==
  /\ UpIs(f, m, ScopeRef(f.Name, SubSeq(path, 1, Len(path) - 1)))
  /\ \A i \in 1..Len(m.Fields) : UpIs(f, m.Fields[i], ScopeRef(f.Name, path))
  /\ \A i \in 1..Len(m.Oneofs) : UpIs(f, m.Oneofs[i], ScopeRef(f.Name, path))
  /\ EnumsUp(f, m, path)
  /\ ExtensionsUp(f, m, path)
  /\ \A i \in 1..Len(m.Messages) : MessageUp(f, m.Messages[i], Append(path, i))

\* Every node of the file f.
FileUp(f) ==
  /\ \A i \in 1..Len(f.Messages) : MessageUp(f, f.Messages[i], <<i>>)
  /\ EnumsUp(f, f, <<>>)
  /\ ExtensionsUp(f, f, <<>>)
  /\ \A i \in 1..Len(f.Services) :
       /\ UpIs(f, f.Services[i], ScopeRef(f.Name, <<>>))
       /\ \A j \in 1..Len(f.Services[i].Methods) :
            UpIs(f, f.Services[i].Methods[j], NodeRef("Service", f.Name, <<>>, i))

\* C22: after a successful parse every message (nested and group messages
\* included), enum, enum value, field, oneof, service, method and extension of
\* the file has as Up the node whose child list holds it, and following Up
\* from it ends at the file being parsed.
C22_UpConsistent ==
  /\ pe = nilErr => \A n \in 1..Len(fset) : FileUp(fset[n])
  /\ Succeeded => \A n \in 1..Len(ret.fset) : FileUp(ret.fset[n])


\* C22 happens: the groups G and H, the enum in H, the message N and the
\* oneof in it have been parsed, each with the Up of its place.
C22_Witness ==
  /\ Succeeded
  /\ ReadText(NestedGroupsText)
  /\ LET g == ret.fset[1].Messages[1].Messages[1]
     IN /\ g.Group /\ g.Name = "G"
        /\ g.Up = NodeRef("Message", "a", <<1>>, 0)
        /\ g.Messages[1].Group /\ g.Messages[1].Name = "H"
        /\ g.Messages[1].Up = NodeRef("Message", "a", <<1, 1>>, 0)
        /\ g.Messages[1].Enums[1].Values[1].Up = NodeRef("Enum", "a", <<1, 1, 1>>, 1)
        /\ g.Messages[2].Name = "N"
        /\ g.Messages[2].Oneofs[1].Up = NodeRef("Message", "a", <<1, 1, 2>>, 0)
        /\ g.Messages[2].Fields[1].Up = NodeRef("Message", "a", <<1, 1, 2>>, 0)

\* The services, methods and extensions have been parsed.
ServiceAndExtensionsParsed ==
  /\ pc = "loop" /\ pe = nilErr /\ buf = ServiceAndExtensionsText
  /\ fset[1].Services[1].Methods[1].Up = NodeRef("Service", "a", <<>>, 1)
  /\ fset[1].Extensions[1].Fields[1].Up = NodeRef("Extension", "a", <<>>, 1)
  /\ fset[1].Messages[1].Extensions[1].Fields[1].Up = NodeRef("Extension", "a", <<1>>, 1)

\* ------------------------------------------------------------------------
\* Properties of the field labels
\* ------------------------------------------------------------------------

\* The fields of the file f: of its messages at every depth and of its
\* extensions at every depth.
AllFields(f) ==
  FileFields(f)
    \cup UNION {{x.Fields[i] : i \in 1..Len(x.Fields)} : x \in FileExtensions(f)}

\* C23: in a successfully parsed file no field is both Required and Repeated;
\* a map field has Repeated true, Required false and a non-empty KeyTypeName;
\* a field declared without a label has both false and is emitted with
\* LABEL_OPTIONAL.
C23_Labels ==
  /\ pe = nilErr =>
       \A n \in 1..Len(fset) : \A f \in AllFields(fset[n]) :
         /\ ~(f.Required /\ f.Repeated)
         /\ f.KeyTypeName # "" => f.Repeated /\ ~f.Required
  /\ \A lb \in Labels, d \in LabelDecls :
       ReadFileReturned(LabelBody(lb, d)) /\ pe = nilErr =>
         LET f == fset[1].Messages[1].Fields[1]
         IN IF d.map
            THEN f.KeyTypeName # "" /\ f.Repeated /\ ~f.Required
            ELSE /\ f.KeyTypeName = ""
                 /\ f.Required = (lb = "required ")
                 /\ f.Repeated = (lb = "repeated ")
  /\ \A d \in LabelDecls :
       ~d.map /\ ParsedText(LabelBody("", d)) /\ Returned =>
         /\ ret.err = nilErr
         /\ pc \in {"returned", "generated"}
         /\ pc = "generated" =>
              fds.File[1].MessageType[1].Field[1].Label = "LABEL_OPTIONAL"

\* C23 happens: a field declared without a label, in a oneof, has been
\* emitted.
C23_Witness ==
  /\ pc = "generated"
  /\ buf = "message A { oneof o { string x = 1; } }"
  /\ ~ret.fset[1].Messages[1].Fields[1].Required
  /\ ~ret.fset[1].Messages[1].Fields[1].Repeated
  /\ fds.File[1].MessageType[1].Field[1].Label = "LABEL_OPTIONAL"

\* A map field and a required field have been parsed.
MapFieldParsed ==
  /\ pc = "loop" /\ pe = nilErr
  /\ buf = "message A { map<string, int32> x = 1; }"
  /\ fset[1].Messages[1].Fields[1].KeyTypeName = "string"
  /\ fset[1].Messages[1].Fields[1].Repeated

RequiredFieldParsed ==
  /\ pc = "loop" /\ pe = nilErr
  /\ buf = "message A { required A x = 1; }"
  /\ fset[1].Messages[1].Fields[1].Required

\* ------------------------------------------------------------------------
\* Properties of the oneofs
\* ------------------------------------------------------------------------

\* The oneof number i (from 1) of the message at path of the file "a".
OneofRef(path, i) == NodeRef("Oneof", "a", path, i)

\* ParseFiles has returned the FileSet of the text b and Generate, if it has
\* been called, has succeeded.
Accepted(b) ==
  ParsedText(b) /\ Returned => ret.err = nilErr /\ pc \in {"returned", "generated"}

Generated(b) == ParsedText(b) /\ pc = "generated"

\* The oneofs that the fields of the message m hold, in order.
OneofsOf(m) == [i \in 1..Len(m.Fields) |-> m.Fields[i].Oneof]

\* The oneof_index of the fields of the descriptor dp, in order (<<>> for none).
IndexesOf(dp) == [i \in 1..Len(dp.Field) |-> dp.Field[i].OneofIndex]

\* The fields of OneofsText: a, d and f outside, b and c in x, e in y.
OneofsEmitted ==
  /\ Accepted(OneofsText)
  /\ ParsedText(OneofsText) /\ Returned =>
       /\ [i \in 1..2 |-> ret.fset[1].Messages[1].Oneofs[i].Name] = <<"x", "y">>
       /\ OneofsOf(ret.fset[1].Messages[1]) =
            <<nilRef, OneofRef(<<1>>, 1), OneofRef(<<1>>, 1), nilRef,
              OneofRef(<<1>>, 2), nilRef>>
  /\ Generated(OneofsText) =>
       /\ [i \in 1..2 |-> fds.File[1].MessageType[1].OneofDecl[i].Name] = <<"x", "y">>
       /\ IndexesOf(fds.File[1].MessageType[1]) = <<<<>>, <<0>>, <<0>>, <<>>, <<1>>, <<>>>>

\* A oneof opened while another is open is a parse error.
NestedOneofRejected ==
  ParsedText(NestedOneofText) /\ Returned =>
    ret.nil /\ ret.err.kind = "err" /\ pc \in {"returned", "exited"}

\* The group G is a member of x, its field q a member of z, and the message
\* N after the oneof x is a child of A.
GroupInOneofEmitted ==
  /\ Accepted(GroupInOneofText)
  /\ ParsedText(GroupInOneofText) /\ Returned =>
       LET m == ret.fset[1].Messages[1]
       IN /\ OneofsOf(m) = <<OneofRef(<<1>>, 1)>>
          /\ Len(m.Messages) = 2
          /\ OneofsOf(m.Messages[1]) = <<OneofRef(<<1, 1>>, 1)>>
          /\ m.Messages[2].Name = "N"
          /\ OneofsOf(m.Messages[2]) = <<OneofRef(<<1, 2>>, 1)>>
  /\ Generated(GroupInOneofText) =>
       LET dp == fds.File[1].MessageType[1]
       IN /\ IndexesOf(dp) = <<<<0>>>>
          /\ IndexesOf(dp.NestedType[1]) = <<<<0>>>>
          /\ IndexesOf(dp.NestedType[2]) = <<<<0>>>>

\* The map field m and the field b are members of x.
MapInOneofEmitted ==
  /\ Accepted(MapInOneofText)
  /\ ParsedText(MapInOneofText) /\ Returned =>
       OneofsOf(ret.fset[1].Messages[1]) = <<OneofRef(<<1>>, 1), OneofRef(<<1>>, 1)>>
  /\ Generated(MapInOneofText) =>
       IndexesOf(fds.File[1].MessageType[1]) = <<<<0>>, <<0>>>>

\* C24: every field declared between "oneof N {" and its "}" has Oneof set to
\* that oneof and is emitted with the zero-based position of N among the
\* oneofs of the message as oneof_index; every field outside a oneof has
\* Oneof nil and no oneof_index; a oneof opened while another is open is a
\* parse error; the "}" that closes a oneof does not end the message.
C24_Oneofs ==
  /\ OneofsEmitted
  /\ NestedOneofRejected
  /\ GroupInOneofEmitted
  /\ MapInOneofEmitted

\* The claim for the fields that are not map fields.
OneofsOfPlainFields == OneofsEmitted /\ NestedOneofRejected /\ GroupInOneofEmitted

OneofsGenerated == Generated(OneofsText)

GroupInOneofGenerated == Generated(GroupInOneofText)

MapInOneofGenerated == Generated(MapInOneofText)

\* The statements of stmts of the kind knd, in order.
StmtsOfKind(stmts, knd) == SelectSeq(stmts, LAMBDA st : st.kind = knd)

\* stmts holds a second package statement, a second syntax statement, or a
\* syntax value that is neither "proto2" nor "proto3".
HeadRejected(stmts) ==
  \/ Len(StmtsOfKind(stmts, "package")) > 1
  \/ Len(StmtsOfKind(stmts, "syntax")) > 1
  \/ \E i \in 1..Len(stmts) :
       stmts[i].kind = "syntax" /\ stmts[i].value \notin {"proto2", "proto3"}

\* C25: in any sequence of top-level statements a second package statement,
\* a second syntax statement and a syntax value other than "proto2" and
\* "proto3" make readFile return an error; every other sequence parses, into
\* a File whose Package is that of its one package statement (nil if none)
\* and whose Syntax is "", "proto2" or "proto3".
C25_OnePackageOneSyntax ==
  \A stmts \in HeadLists :
    ReadFileReturned(HeadBody(stmts)) =>
      LET pkgs == StmtsOfKind(stmts, "package")
          syns == StmtsOfKind(stmts, "syntax")
      IN /\ HeadRejected(stmts) <=> pe # nilErr
         /\ pe # nilErr => pc = "returned" /\ ret.err = pe /\ ret.nil
         /\ pe = nilErr =>
              /\ fset[1].Package = (IF pkgs = <<>> THEN <<>> ELSE Split(pkgs[1].pkg, "."))
              /\ fset[1].Syntax = (IF syns = <<>> THEN "" ELSE syns[1].value)
              /\ fset[1].Syntax \in {"", "proto2", "proto3"}

\* A second package statement after `package ;` has been rejected.
C25_Witness ==
  /\ ReadFileReturned("package ; option o = 1; package p; message H { }")
  /\ pe # nilErr
  /\ pe.message = "duplicate package statement"

\* A second syntax statement has been rejected.
DuplicateSyntaxRejected ==
  /\ ReadFileReturned("syntax = \"proto2\"; package p; syntax = \"proto3\"; message H { }")
  /\ pe # nilErr
  /\ pe.message = "duplicate syntax statement"

\* A file of one package statement and one syntax statement has parsed.
OnePackageOneSyntaxParsed ==
  /\ ReadFileReturned("package q.r; syntax = \"proto3\"; option o = 1; message H { }")
  /\ pe = nilErr
  /\ fset[1].Package = <<"q", "r">>
  /\ fset[1].Syntax = "proto3"

\* ------------------------------------------------------------------------
\* Properties of the comments
\* ------------------------------------------------------------------------

RECURSIVE LineStart(_, _)
\* The offset of the first byte of the line i of the lines ls.
LineStart(ls, i) ==
  IF i = 1 THEN 0 ELSE LineStart(ls, i - 1) + Len(ls[i - 1].text) + 1

\* The // comments of the lines ls in source order: the line of each and the
\* offset of its "//".
CommentsOf(ls) ==
  LET has(i) == ls[i].col >= 0
      at(i) == [Line |-> i, Offset |-> LineStart(ls, i) + ls[i].col]
      idx == SelectSeq([i \in 1..Len(ls) |-> i], has)
  IN [n \in 1..Len(idx) |-> at(idx[n])]

RECURSIVE TextLines(_, _)
\* The number of Text entries of the first j blocks of bs.
TextLines(bs, j) ==
  IF j = 0 THEN 0 ELSE TextLines(bs, j - 1) + Len(bs[j].Text)

\* readFile has returned nil from the text of the lines ls.
CommentsRead(ls) ==
  world = "comments" /\ buf = LinesBody(ls) /\ pc # "parse" /\ pe = nilErr

\* C26: the Comment blocks of a parsed File partition the // comments of its
\* text into runs, in source order: every comment is in exactly one block,
\* two adjacent comments are in the same block iff the second is on the line
\* after the first, Start and End of a block are the positions of its first
\* and last comment and Text has one entry for each of its comments.
C26_CommentBlocks ==
  \A ls \in CommentLineLists :
    CommentsRead(ls) =>
      LET cs == CommentsOf(ls)
          bs == fset[1].Comments
          first(j) == TextLines(bs, j - 1) + 1
          last(j) == TextLines(bs, j)
          blockOf(i) == CHOOSE j \in 1..Len(bs) : first(j) <= i /\ i <= last(j)
      IN /\ TextLines(bs, Len(bs)) = Len(cs)
         /\ \A j \in 1..Len(bs) :
              /\ Len(bs[j].Text) >= 1
              /\ bs[j].Start = cs[first(j)]
              /\ bs[j].End = cs[last(j)]
         /\ \A i \in 1..(Len(cs) - 1) :
              blockOf(i) = blockOf(i + 1) <=> cs[i + 1].Line = cs[i].Line + 1

\* C26 happens: of three comments the first two, on the lines 1 and 2, make
\* one block and the third, on the line 4, makes another.
C26_Witness ==
  /\ world = "comments"
  /\ buf = "message A { // a\n  optional int32 x = 1; // x\n\n  enum E { V = 1; } // e\n}\n// z"
  /\ pe = nilErr
  /\ Len(fset[1].Comments) = 3
  /\ fset[1].Comments[1] =
       [Start |-> [Line |-> 1, Offset |-> 12], End |-> [Line |-> 2, Offset |-> 41],
        Text |-> <<"a", "x">>]
  /\ fset[1].Comments[2].Start = [Line |-> 4, Offset |-> 67]
  /\ fset[1].Comments[3].Text = <<"z">>

\* A "//" inside a string is no comment, and a gap of one line parts blocks.
StringIsNoComment ==
  /\ world = "comments"
  /\ buf = "// c\noption o = \"//\";\n  //  d "
  /\ pe = nilErr
  /\ Len(fset[1].Comments) = 2
  /\ fset[1].Comments[2] =
       [Start |-> [Line |-> 3, Offset |-> 24], End |-> [Line |-> 3, Offset |-> 24],
        Text |-> <<"d">>]

\* The calls of InlineComment made so far.
InlineCalls == {log[i] : i \in 1..Len(log)}

\* The comment that a call of InlineComment returned is as promised for
\* the node asked about.
PromisedComment(e) ==
  \/ e.r.nil
  \/ /\ e.r.c.Start = e.r.c.End
     /\ Len(e.r.c.Text) = 1
     /\ e.r.c.Start.Line = e.n.Position.Line

\* C27: for every node of a file the parser has produced, InlineComment
\* returns nil or a comment with Start equal to End, exactly one Text line
\* and Start.Line equal to the line of the node; the panic of its sanity
\* check is never reached.
C27_InlineComment ==
  world = "comments" =>
    /\ pc # "panicked"
    /\ \A e \in InlineCalls : ~e.r.panic /\ PromisedComment(e)

\* Whenever InlineComment returns, what it returns is as promised.
InlineCommentAsPromisedOnReturn ==
  world = "comments" =>
    \A e \in InlineCalls : ~e.r.panic => PromisedComment(e)

\* InlineComment has returned the comment on the line of a message.
InlineCommentReturned ==
  /\ world = "comments"
  /\ buf = "message M { } // c"
  /\ pc = "asked"
  /\ log[1].r = [nil |-> FALSE, panic |-> FALSE,
                 c |-> [Start |-> [Line |-> 1, Offset |-> 14],
                        End |-> [Line |-> 1, Offset |-> 14], Text |-> <<"c">>]]

\* InlineComment has panicked: the comment on the line of the message and
\* the comment on the next line are one block.
InlineCommentPanicked ==
  /\ world = "comments"
  /\ buf = "message M { } // c\n// c"
  /\ pc = "panicked"
  /\ log[1].n.kind = "Message"
  /\ log[1].r.c.Start.Line = 1
  /\ log[1].r.c.End.Line = 2

\* ------------------------------------------------------------------------
\* Properties of the errors of readExtensionRange
\* ------------------------------------------------------------------------

\* The parser of the text b of the file "a" when readMessageContents calls
\* readExtensionRange: before the fourth token, "extensions".
AtExtensions(b) ==
  Call("back", <<Call("next", <<Call("next", <<Call("next", <<Call("next",
    <<newParser("a", b)>>)>>)>>)>>)>>)

\* What readExtensionRange returns on the extensions statement of b.
RangeRead(b) == Call("readExtensionRange", <<AtExtensions(b)>>)

\* A token read by readExtensionRange on b has failed: the lexer raised an
\* error on it or the input had ended.
RangeTokenFailed(b) ==
  LET r == RangeRead(b)
  IN r.p.lexErr # nilErr \/ r.p.cur.err = eof

\* C29: whenever a token read inside readExtensionRange fails, by an error
\* of the lexer or by the end of the input, after the start or after the end
\* of a range, readExtensionRange returns a non-nil error, and the error
\* that ParseFiles returns for the file is that error of the token.
C29_RangeErrors ==
  \A h \in RangeHeads, e \in RangeEndings :
    LET b == RangeCutBody(h, e)
    IN ReadFileReturned(b) /\ RangeTokenFailed(b) =>
         /\ RangeRead(b).err # nilErr
         /\ pe = RangeRead(b).p.cur.err
         /\ ret.err = pe

\* The same for the tokens at which a range starts or ends: a failure of the
\* number itself is returned and surfaced.
RangeNumberErrors ==
  \A h \in RangeHeads, e \in {",", " to"} :
    LET b == RangeCutBody(h, e)
    IN ReadFileReturned(b) /\ RangeTokenFailed(b) =>
         /\ RangeRead(b).err # nilErr
         /\ pe = RangeRead(b).p.cur.err
         /\ ret.err = pe

\* The input ended after the start of a range: readExtensionRange returned
\* nil and readFile an error of its own.
RangeCutAfterStart ==
  /\ ReadFileReturned("message M { extensions 1")
  /\ RangeRead(buf).err = nilErr
  /\ RangeRead(buf).p.cur.err = eof
  /\ pe # nilErr
  /\ pe # eof

\* ------------------------------------------------------------------------
\* Properties of the frame of the resolver and of the generator
\* ------------------------------------------------------------------------

\* A node with its resolved-reference slots blanked.
EraseField(f) == [f EXCEPT !.Type = nilRef, !.KeyType = minFieldType]

EraseFields(fields) == [i \in 1..Len(fields) |-> EraseField(fields[i])]

EraseExtensions(exts) ==
  [i \in 1..Len(exts) |->
     [exts[i] EXCEPT !.ExtendeeType = nilRef, !.Fields = EraseFields(@)]]

EraseServices(srvs) ==
  [i \in 1..Len(srvs) |->
     [srvs[i] EXCEPT !.Methods =
        [j \in 1..Len(srvs[i].Methods) |->
           [srvs[i].Methods[j] EXCEPT !.InType = nilRef, !.OutType = nilRef]]]]

RECURSIVE EraseMessage(_)
EraseMessage(m) ==
  [m EXCEPT !.Fields = EraseFields(@),
            !.Extensions = EraseExtensions(@),
            !.Messages = [i \in 1..Len(m.Messages) |-> EraseMessage(m.Messages[i])]]

EraseFile(f) ==
  [f EXCEPT !.Messages = [i \in 1..Len(f.Messages) |-> EraseMessage(f.Messages[i])],
            !.Extensions = EraseExtensions(@),
            !.Services = EraseServices(@)]

\* The files fs but for their resolved-reference slots.
Erased(fs) == [i \in 1..Len(fs) |-> EraseFile(fs[i])]

\* A step of resolveSymbols, and a step of Generate.
ResolveStep == pc = "loop" /\ pc' = "returned"

GenerateStep == pc = "returned" /\ pc' \in {"generated", "exited", "panicked"}

\* C28: resolveSymbols changes only resolved-reference slots (Field.Type,
\* Field.KeyType, Method.InType and OutType, Extension.ExtendeeType): but
\* for them the files after it are the files before it, node for node, with
\* every name, tag, label and Up.  Generate, and what main does after it,
\* leaves the whole AST as it was, map fields and groups included.
C28_Frame ==
  [][/\ ResolveStep => Erased(fset') = Erased(fset)
     /\ GenerateStep => fset' = fset /\ ret' = ret]_vars

\* C28 happens: resolveSymbols has set the types of the fields of a message
\* with a group and a map field, Generate has emitted the group's field in
\* lower case and the map-entry message, and the AST has neither.
C28_Witness ==
  /\ ReadText(FrameText)
  /\ pc = "generated"
  /\ LET m == ret.fset[1].Messages[1]
         dp == fds.File[1].MessageType[1]
     IN /\ ret.fset = fset
        /\ m.Fields[1].Name = "G" /\ dp.Field[1].Name = "g"
        /\ m.Fields[1].Type = NodeRef("Message", "a", <<1, 1>>, 0)
        /\ m.Fields[2].KeyType = FieldTypeRef("string")
        /\ m.Fields[2].Type = NodeRef("Message", "a", <<1>>, 0)
        /\ m.Messages[2].Fields[1].Type = NodeRef("Message", "a", <<1, 1>>, 0)
        /\ Len(m.Messages) = 2
        /\ Len(dp.NestedType) = 3

\* ------------------------------------------------------------------------
\* Properties of the positions of the lexer
\* ------------------------------------------------------------------------

\* The number of newline bytes of s.
Newlines(s) == Cardinality({i \in 1..Len(s) : SubSeq(s, i, i) = "\n"})

\* The parser q has consumed a prefix of the input and nothing else: what
\* is left is the input from q.offset on.
ConsumedFromFront(q) ==
  /\ q.offset + Len(q.s) = Len(buf)
  /\ q.s = Drop(buf, q.offset)

\* The token tok stands in the input at tok.offset, on the line tok.line.
TokenInPlace(tok) ==
  /\ tok.offset + Len(tok.value) <= Len(buf)
  /\ Slice(buf, tok.offset, tok.offset + Len(tok.value)) = tok.value
  /\ tok.line = 1 + Newlines(Take(buf, tok.offset))

\* The call i of the run is a next() that returned a token without an error.
ReturnedToken(i) == log[i].op = "next" /\ log[i].p.cur.err = nilErr

RECURSIVE AfterBackedError(_)
\* The call i returned the token that a back() after a failed next() had
\* pushed back, once or several times in a row.
AfterBackedError(i) ==
  /\ i >= 3
  /\ log[i - 1].op = "back"
  /\ \/ log[i - 2].p.cur.err \notin {nilErr, eof}
     \/ AfterBackedError(i - 2)

\* C30: after any sequence of next() and back(), offset plus the length of
\* the remaining input is the length of the original input, the input is
\* consumed from the front and in order, and every token returned without an
\* error has as Offset the 0-based offset of its first byte and as Line 1
\* plus the number of newlines before that byte.
C30_LexerPositions ==
  world = "lex" =>
    /\ ConsumedFromFront(p)
    /\ \A i \in 1..Len(log) :
         /\ ConsumedFromFront(log[i].p)
         /\ i > 1 => log[i - 1].p.offset <= log[i].p.offset
         /\ ReturnedToken(i) => TokenInPlace(log[i].p.cur)

\* The same but for the tokens returned after a back() over a failed token.
PositionsButAfterBackedError ==
  world = "lex" =>
    /\ ConsumedFromFront(p)
    /\ \A i \in 1..Len(log) :
         /\ ConsumedFromFront(log[i].p)
         /\ i > 1 => log[i - 1].p.offset <= log[i].p.offset
         /\ ReturnedToken(i) /\ ~AfterBackedError(i) => TokenInPlace(log[i].p.cur)

\* Tokens of the first and third line have been returned in place, the
\* comment of the second skipped.
TokensInPlaceReturned ==
  /\ world = "lex"
  /\ buf = "message A {\n  // c\n  optional string s = \"x\";\n}\n"
  /\ Len(log) = 9
  /\ \A i \in 1..9 : ReturnedToken(i)
  /\ log[4].p.cur = [token EXCEPT !.value = "optional", !.line = 3, !.offset = 21]
  /\ log[8].p.cur.value = "\"x\"" /\ log[8].p.cur.offset = 41
  /\ log[9].p.cur.value = ";" /\ log[9].p.cur.line = 3

====
